---- MODULE Spec2Model ----
(***************************************************************************)
(* smartintern-mcp: the Slack events server (events/server.ts), the        *)
(* repository (db/repository.ts), the schema (db/models.ts) and the        *)
(* follow-up / notes / message / channel tools (mcp/tools).                *)
(*                                                                         *)
(* The events server is modelled at the granularity of the event loop: one *)
(* action per run of a request handler between two awaits.  A tool call is *)
(* one action covering the whole handler; the point at which an external   *)
(* call (Slack API, database) throws is an input of the action.            *)
(***************************************************************************)
EXTENDS Integers, Sequences, FiniteSets, TLC

VARIABLES
    channels,       \* table channels: set of rows
    messages,       \* table messages: set of rows
    meeting_notes,  \* table meeting_notes: set of rows
    action_items,   \* table action_items: set of rows
    seq,            \* the SERIAL sequences of the four tables (last value)
    now,            \* Math.floor(Date.now() / 1000)
    reqs,           \* events server: the requests in flight, by slot
    toolCall,       \* MCP server: the last tool call, what it did and returned
    boot            \* index.ts: the startup of the process

vars ==
    <<channels, messages, meeting_notes, action_items, seq, now, reqs, toolCall, boot>>

tables == <<channels, messages, meeting_notes, action_items>>

-----------------------------------------------------------------------------
(* Bounds of the model *)

\* number of requests the events server processes concurrently
MaxReq == 2

\* largest value a SERIAL sequence takes
MaxSerial == 3

\* number of clock ticks
MaxTick == 1

\* number of tool calls the MCP server serves
MaxCalls == 2

\* number of calls of the follow-up tools in a run of reminders
MaxFollowUps == 4

-----------------------------------------------------------------------------
(* Input domains *)

Slots == 1..MaxReq

Epoch == 1000

ChannelIds == {"C1", "C2"}

ChannelNames == {"general"}

UserIds == {"U1", "U2"}

\* message texts, as sequences of lower-case words
Texts == {<<"hello">>, <<"todo", "ship", "it">>}

\* Slack message timestamps ("<n>.000000"), as numbers
MessageTs == {1, 2}

NULL == [null |-> TRUE]

Statuses == {"open", "completed", "blocked"}

-----------------------------------------------------------------------------
(* db/models.ts, db/repository.ts *)

FiveMinutes == 60 * 5

\* 'v0=' followed by the 64 hex digits of a SHA-256 digest
SigLen == 67

SigningSecret == "signing-secret"

RowsBySlackId(table, slack_id) == {row \in table : row.slack_id = slack_id}

\* INSERT INTO channels ... ON CONFLICT (slack_id) DO UPDATE SET name, is_private
\* RETURNING id.  The SERIAL default is evaluated before the conflict is seen.
storeChannel_plainInsert(table, serial, channelData) ==
    LET id == serial + 1
    IN  [table  |-> table \cup {[id |-> id, slack_id |-> channelData.id,
                                 name |-> channelData.name,
                                 is_private |-> channelData.is_private]},
         serial |-> id,
         row    |-> [id |-> id]]

storeChannel(table, serial, channelData) ==
    LET id       == serial + 1
        existing == RowsBySlackId(table, channelData.id)
    IN  IF existing = {}
        THEN [table  |-> table \cup {[id |-> id, slack_id |-> channelData.id,
                                      name |-> channelData.name,
                                      is_private |-> channelData.is_private]},
              serial |-> id,
              row    |-> [id |-> id]]
        ELSE [table  |-> {IF row \in existing
                          THEN [row EXCEPT !.name = channelData.name,
                                           !.is_private = channelData.is_private]
                          ELSE row : row \in table},
              serial |-> id,
              row    |-> [id |-> (CHOOSE row \in existing : TRUE).id]]

\* new Date(parseFloat(messageData.ts) * 1000), in milliseconds
messageTimestamp(ts) == ts * 1000

\* INSERT INTO messages ... RETURNING id, without the ON CONFLICT clause and
\* the UNIQUE constraint
storeMessage_plainInsert(table, serial, messageData, channelId) ==
    LET id == serial + 1
    IN  [table  |-> table \cup {[id |-> id, slack_id |-> messageData.ts,
                                 channel_id |-> channelId,
                                 user_id |-> messageData.user,
                                 text |-> messageData.text,
                                 timestamp |-> messageTimestamp(messageData.ts),
                                 thread_ts |-> messageData.thread_ts,
                                 has_attachments |-> messageData.attachments]},
         serial |-> id,
         row    |-> [id |-> id]]

\* INSERT INTO messages ... ON CONFLICT (slack_id) DO UPDATE SET text RETURNING id
storeMessage(table, serial, messageData, channelId) ==
    LET id       == serial + 1
        existing == RowsBySlackId(table, messageData.ts)
    IN  IF existing = {}
        THEN [table  |-> table \cup {[id |-> id, slack_id |-> messageData.ts,
                                      channel_id |-> channelId,
                                      user_id |-> messageData.user,
                                      text |-> messageData.text,
                                      timestamp |-> messageTimestamp(messageData.ts),
                                      thread_ts |-> messageData.thread_ts,
                                      has_attachments |-> messageData.attachments]},
              serial |-> id,
              row    |-> [id |-> id]]
        ELSE [table  |-> {IF row \in existing
                          THEN [row EXCEPT !.text = messageData.text]
                          ELSE row : row \in table},
              serial |-> id,
              row    |-> [id |-> (CHOOSE row \in existing : TRUE).id]]

\* SELECT ... FROM channels WHERE slack_id = $1: the row, or NULL
getChannelBySlackId(table, slack_id) ==
    LET found == RowsBySlackId(table, slack_id)
    IN  IF found = {} THEN NULL ELSE CHOOSE row \in found : TRUE

-----------------------------------------------------------------------------
(* events/server.ts: requests *)

ABSENT == [kind |-> "absent"]

\* crypto.createHmac('sha256', key).update(data).digest('hex'): a value that
\* identifies the key and the data
HmacSha256Hex(key, data) == <<key, data>>

\* `v0:${timestamp}:${req.rawBody.toString()}`
sigBasestring(timestamp, rawBody) == <<"v0", timestamp, rawBody>>

\* `v0=${hmac.digest('hex')}`
mySignature(req) ==
    [kind |-> "sig",
     mac  |-> HmacSha256Hex(SigningSecret, sigBasestring(req.timestamp, req.body)),
     len  |-> SigLen]

\* parseInt(timestamp): NaN for a header that does not start with digits
parseInt(header) ==
    IF header.kind = "int" THEN [nan |-> FALSE, val |-> header.val]
                           ELSE [nan |-> TRUE, val |-> 0]

\* parseInt(timestamp) < fiveMinutesAgo; a comparison with NaN is false
isStale(header, t) ==
    LET fiveMinutesAgo == t - FiveMinutes
        n == parseInt(header)
    IN  ~n.nan /\ n.val < fiveMinutesAgo

\* crypto.timingSafeEqual(Buffer.from(a), Buffer.from(b)): throws a RangeError
\* when the two buffers differ in length
timingSafeEqual(a, b) ==
    IF a.len # b.len THEN "throw"
    ELSE IF a.mac = b.mac THEN "true" ELSE "false"

ChannelCreatedEvents ==
    {[type |-> "channel_created", channel |-> ABSENT]} \cup
    {[type |-> "channel_created",
      channel |-> [kind |-> "channel", id |-> c, name |-> n, is_private |-> p]] :
        c \in ChannelIds, n \in ChannelNames, p \in BOOLEAN}

ChannelMessageEvents ==
    {[type |-> "message", channel_type |-> "channel", channel |-> c, ts |-> ts,
      user |-> "U1", text |-> tx, thread_ts |-> NULL, attachments |-> FALSE] :
        c \in ChannelIds, ts \in MessageTs, tx \in Texts}

DirectMessageEvent ==
    [type |-> "message", channel_type |-> "im", channel |-> "C1", ts |-> 1,
     user |-> "U1", text |-> <<"hello">>, thread_ts |-> NULL, attachments |-> FALSE]

UrlVerification == [type |-> "url_verification", challenge |-> "challenge-1"]

EventCallback(event) == [type |-> "event_callback", event |-> event]

Bodies ==
    {UrlVerification, EventCallback(ABSENT), EventCallback([type |-> "reaction_added"]),
     EventCallback(DirectMessageEvent), [type |-> "app_rate_limited"]} \cup
    {EventCallback(e) : e \in ChannelCreatedEvents \cup ChannelMessageEvents}

\* express.json() leaves req.body = {} and sets no req.rawBody when the
\* request has no JSON body
EmptyBody == [type |-> "undefined"]

\* the body sent with the requests that carry no valid signature
ForgedBody == EventCallback(CHOOSE e \in ChannelMessageEvents : TRUE)

PostSlackEvents == "POST /slack/events"

\* just fresh at Epoch, stale after a tick
PastTimestamp == [kind |-> "int", val |-> Epoch - FiveMinutes]

\* more than five minutes ahead of every clock value
FutureTimestamp == [kind |-> "int", val |-> Epoch + MaxTick + FiveMinutes + 1]

TimestampHeaders == {ABSENT, [kind |-> "junk"], PastTimestamp, FutureTimestamp}

\* what a sender that does not hold the signing secret can put in the header
\* next to the timestamp and the body: nothing, an HMAC under another key,
\* the hex digest without its 'v0=' prefix
ForgedSignatures(timestamp, body) ==
    {ABSENT,
     [kind |-> "sig",
      mac  |-> HmacSha256Hex("other-secret", sigBasestring(timestamp, body)),
      len  |-> SigLen],
     [kind |-> "sig",
      mac  |-> HmacSha256Hex(SigningSecret, sigBasestring(timestamp, body)),
      len  |-> SigLen - 3]}

Request(route, timestamp, signature, raw, body) ==
    [route |-> route, timestamp |-> timestamp, signature |-> signature,
     raw |-> raw, body |-> body]

\* the requests that can arrive
Requests ==
    \* signed by Slack
    {Request(PostSlackEvents, PastTimestamp,
             mySignature([timestamp |-> PastTimestamp, body |-> b]), TRUE, b) :
        b \in Bodies}
    \cup
    {Request(PostSlackEvents, h, mySignature([timestamp |-> h, body |-> ForgedBody]),
             TRUE, ForgedBody) :
        h \in TimestampHeaders \ {ABSENT}}
    \cup
    {Request(PostSlackEvents, ABSENT,
             mySignature([timestamp |-> ABSENT, body |-> ForgedBody]), TRUE, ForgedBody),
     Request("GET /", PastTimestamp,
             mySignature([timestamp |-> PastTimestamp, body |-> UrlVerification]),
             TRUE, UrlVerification)}
    \cup
    \* not signed by Slack
    UNION {{Request(PostSlackEvents, h, s, TRUE, ForgedBody) :
               s \in ForgedSignatures(h, ForgedBody)} : h \in TimestampHeaders}
    \cup
    {Request(PostSlackEvents, PastTimestamp, s, FALSE, EmptyBody) :
        s \in (ForgedSignatures(PastTimestamp, EmptyBody) \ {ABSENT})}

NoRequest == Request("", ABSENT, ABSENT, FALSE, EmptyBody)

IdleSlot ==
    [pc |-> "idle", req |-> NoRequest, event |-> ABSENT, passed |-> FALSE, threw |-> FALSE,
     status |-> 0, text |-> "", channelInfo |-> NULL, channelRecord |-> NULL,
     writes |-> 0, calls |-> 0]

-----------------------------------------------------------------------------
(* events/server.ts: middleware and endpoint *)

Response(status, text) == [next |-> FALSE, status |-> status, text |-> text]

\* the middleware without its signature comparison
verifySlackSignature_noCompare(req, t) ==
    IF req.timestamp = ABSENT \/ req.signature = ABSENT
    THEN Response(400, "Missing Slack signature headers")
    ELSE IF isStale(req.timestamp, t)
    THEN Response(400, "Ignore stale request")
    ELSE [next |-> TRUE, status |-> 0, text |-> ""]

\* app.use((req, res, next) => ...): the response, or next().  An exception
\* thrown by the middleware reaches the default error handler of express,
\* which answers 500.
verifySlackSignature(req, t) ==
    IF req.timestamp = ABSENT \/ req.signature = ABSENT
    THEN Response(400, "Missing Slack signature headers")
    ELSE IF isStale(req.timestamp, t)
    THEN Response(400, "Ignore stale request")
    ELSE IF ~req.raw
    THEN Response(500, "TypeError")
    ELSE LET equal == timingSafeEqual(mySignature(req), req.signature)
         IN  IF equal = "throw" THEN Response(500, "RangeError")
             ELSE IF equal = "false" THEN Response(401, "Invalid signature")
             ELSE [next |-> TRUE, status |-> 0, text |-> ""]

\* an endpoint that stores the message events of every channel_type
slackEvents_anyChannelType(req) ==
    LET body == req.body
        sendStatus200(threw) ==
            [await |-> "", threw |-> threw, status |-> 200, text |-> "OK"]
    IN  IF req.route # PostSlackEvents
        THEN [await |-> "", threw |-> FALSE, status |-> 404, text |-> "Not Found"]
        ELSE IF body.type = "url_verification"
        THEN [await |-> "", threw |-> FALSE, status |-> 200, text |-> body.challenge]
        ELSE IF body.type = "event_callback"
        THEN IF body.event = ABSENT
             THEN sendStatus200(TRUE)
             ELSE IF body.event.type = "channel_created"
             THEN IF body.event.channel = ABSENT
                  THEN sendStatus200(TRUE)
                  ELSE [await |-> "channel_created:storeChannel", threw |-> FALSE,
                        status |-> 0, text |-> ""]
             ELSE IF body.event.type = "message"
             THEN [await |-> "message:getChannelBySlackId", threw |-> FALSE,
                   status |-> 0, text |-> ""]
             ELSE sendStatus200(FALSE)
        ELSE sendStatus200(FALSE)

\* app.post('/slack/events', ...) up to its first await: the response, or
\* the call the handler awaits.  A TypeError raised inside the try block
\* (no event, no event.channel) is caught and logged, and 200 is sent.
slackEvents(req) ==
    LET body == req.body
        sendStatus200(threw) ==
            [await |-> "", threw |-> threw, status |-> 200, text |-> "OK"]
    IN  IF req.route # PostSlackEvents
        THEN [await |-> "", threw |-> FALSE, status |-> 404, text |-> "Not Found"]
        ELSE IF body.type = "url_verification"
        THEN [await |-> "", threw |-> FALSE, status |-> 200, text |-> body.challenge]
        ELSE IF body.type = "event_callback"
        THEN IF body.event = ABSENT
             THEN sendStatus200(TRUE)
             ELSE IF body.event.type = "channel_created"
             THEN IF body.event.channel = ABSENT
                  THEN sendStatus200(TRUE)
                  ELSE [await |-> "channel_created:storeChannel", threw |-> FALSE,
                        status |-> 0, text |-> ""]
             ELSE IF body.event.type = "message" /\ body.event.channel_type = "channel"
             THEN [await |-> "message:getChannelBySlackId", threw |-> FALSE,
                   status |-> 0, text |-> ""]
             ELSE sendStatus200(FALSE)
        ELSE sendStatus200(FALSE)

\* the tables and sequences the events server works on
database == [channels |-> channels, messages |-> messages, seq |-> seq]

\* a catch block that answers 500
Respond200_errorStatus(slot, threw) ==
    [IdleSlot EXCEPT !.pc = "responded", !.passed = slot.passed, !.threw = threw,
                     !.status = IF threw THEN 500 ELSE 200, !.text = "OK",
                     !.writes = slot.writes, !.calls = slot.calls]

\* res.sendStatus(200), after the catch block when the handler threw
Respond200(slot, threw) ==
    [IdleSlot EXCEPT !.pc = "responded", !.passed = slot.passed, !.threw = threw,
                     !.status = 200, !.text = "OK",
                     !.writes = slot.writes, !.calls = slot.calls]

\* what conversations.info can return for a channel
ChannelInfos(channel_id) ==
    {[id |-> channel_id, name |-> n, is_private |-> p] :
        n \in ChannelNames, p \in BOOLEAN}

\* the awaited call throws: catch block, res.sendStatus(200)
awaitThrows(slot, db) ==
    [slot |-> Respond200([slot EXCEPT !.calls =
                             IF slot.pc = "message:conversations.info" THEN @ + 1 ELSE @],
                         TRUE),
     db   |-> db]

\* the awaited call returns: the handler runs up to its next await or to
\* res.sendStatus(200).  info is what conversations.info returns.
awaitReturns(slot, db, info) ==
    IF slot.pc = "channel_created:storeChannel"
    THEN \* await contextRepository.storeChannel({id, name, is_private || false})
         LET channel == slot.event.channel
             stored  == storeChannel(db.channels, db.seq.channels,
                            [id |-> channel.id, name |-> channel.name,
                             is_private |-> channel.is_private])
         IN  [slot |-> Respond200([slot EXCEPT !.writes = @ + 1], FALSE),
              db   |-> [db EXCEPT !.channels = stored.table,
                                  !.seq.channels = stored.serial]]
    ELSE IF slot.pc = "message:getChannelBySlackId"
    THEN \* let channelRecord = await contextRepository.getChannelBySlackId(...)
         LET channelRecord == getChannelBySlackId(db.channels, slot.event.channel)
         IN  [slot |-> IF channelRecord = NULL
                       THEN [slot EXCEPT !.pc = "message:conversations.info"]
                       ELSE [slot EXCEPT !.pc = "message:storeMessage",
                                         !.channelRecord = [id |-> channelRecord.id]],
              db   |-> db]
    ELSE IF slot.pc = "message:conversations.info"
    THEN \* const info = await slackClient.client.conversations.info({channel})
         [slot |-> [slot EXCEPT !.pc = "message:storeChannel", !.channelInfo = info,
                                !.calls = @ + 1],
          db   |-> db]
    ELSE IF slot.pc = "message:storeChannel"
    THEN \* channelRecord = await contextRepository.storeChannel({id, name, is_private})
         LET stored == storeChannel(db.channels, db.seq.channels, slot.channelInfo)
         IN  [slot |-> [slot EXCEPT !.pc = "message:storeMessage", !.channelInfo = NULL,
                                    !.channelRecord = stored.row, !.writes = @ + 1],
              db   |-> [db EXCEPT !.channels = stored.table,
                                  !.seq.channels = stored.serial]]
    ELSE \* await contextRepository.storeMessage(event, channelRecord.id)
         LET stored == storeMessage(db.messages, db.seq.messages, slot.event,
                                    slot.channelRecord.id)
         IN  [slot |-> Respond200([slot EXCEPT !.writes = @ + 1], FALSE),
              db   |-> [db EXCEPT !.messages = stored.table,
                                  !.seq.messages = stored.serial]]

\* the slot of a request after the middleware and the endpoint up to its
\* first await.  Of the request, the handler keeps the event.
handle(req, t) ==
    LET verdict == verifySlackSignature(req, t)
        started == slackEvents(req)
    IN  IF ~verdict.next
        THEN [IdleSlot EXCEPT !.pc = "responded", !.status = verdict.status,
                              !.text = verdict.text]
        ELSE IF started.await = ""
        THEN [IdleSlot EXCEPT !.pc = "responded", !.passed = TRUE,
                              !.threw = started.threw,
                              !.status = started.status, !.text = started.text]
        ELSE [IdleSlot EXCEPT !.pc = started.await, !.passed = TRUE,
                              !.event = req.body.event]

toolVars == <<meeting_notes, action_items, toolCall, boot>>

\* a request (one of incoming) arrives in slot r; express.json() reads its body
Arrive(r, incoming) ==
    /\ reqs[r].pc = "idle"
    /\ \E req \in incoming :
        reqs' = [reqs EXCEPT ![r] = [IdleSlot EXCEPT !.pc = "received", !.req = req]]
    /\ UNCHANGED <<channels, messages, seq, now, toolVars>>

\* the body has been read: the middleware and, after next(), the endpoint up
\* to its first await run in one turn of the event loop
Handle(r) ==
    /\ reqs[r].pc = "received"
    /\ reqs' = [reqs EXCEPT ![r] = handle(reqs[r].req, now)]
    /\ UNCHANGED <<channels, messages, seq, now, toolVars>>

AwaitPoints ==
    {"channel_created:storeChannel", "message:getChannelBySlackId",
     "message:conversations.info", "message:storeChannel", "message:storeMessage"}

\* the sequence an INSERT of the call awaited at pc draws from has a value left
SerialLeft(pc, db) ==
    /\ pc \in {"channel_created:storeChannel", "message:storeChannel"}
            => db.seq.channels < MaxSerial
    /\ pc = "message:storeMessage" => db.seq.messages < MaxSerial

\* the call the handler of slot r awaits returns
Return(r) ==
    /\ reqs[r].pc \in AwaitPoints
    /\ SerialLeft(reqs[r].pc, database)
    /\ \E info \in IF reqs[r].pc = "message:conversations.info"
                    THEN ChannelInfos(reqs[r].event.channel) ELSE {NULL} :
        LET next == awaitReturns(reqs[r], database, info)
        IN  /\ reqs' = [reqs EXCEPT ![r] = next.slot]
            /\ channels' = next.db.channels
            /\ messages' = next.db.messages
            /\ seq' = next.db.seq
    /\ UNCHANGED <<now, toolVars>>

\* the call the handler of slot r awaits throws
Throw(r) ==
    /\ reqs[r].pc \in AwaitPoints
    /\ reqs' = [reqs EXCEPT ![r] = awaitThrows(reqs[r], database).slot]
    /\ UNCHANGED <<channels, messages, seq, now, toolVars>>

\* the response has been sent: the slot is free for the next request
Close(r) ==
    /\ reqs[r].pc = "responded"
    /\ reqs' = [reqs EXCEPT ![r] = IdleSlot]
    /\ UNCHANGED <<channels, messages, seq, now, toolVars>>

\* the clock advances
Tick ==
    /\ now < Epoch + MaxTick
    /\ now' = now + 1
    /\ UNCHANGED <<channels, messages, seq, reqs, toolVars>>

-----------------------------------------------------------------------------
(* db/repository.ts: meeting notes and action items *)

\* a property of a JavaScript object that is undefined, and a column that is
\* NULL, are fields the record does not have
Has(rec, field) == field \in DOMAIN rec

Only(rec, fields) == [f \in (DOMAIN rec) \cap fields |-> rec[f]]

\* a string is truthy unless undefined or ''
TruthyString(rec, field) == Has(rec, field) /\ rec[field] # ""

\* a number is truthy unless undefined or 0
TruthyNumber(rec, field) == Has(rec, field) /\ rec[field] # 0

\* INSERT INTO action_items ... ON CONFLICT (description, channel_id) DO NOTHING
storeActionItem_onConflict(table, serial, actionItem, channelId) ==
    LET id   == serial + 1
        same == {row \in table : /\ row.description = actionItem.description
                                  /\ row.channel_id = channelId}
    IN  [table  |-> IF same # {} THEN table
                    ELSE table \cup {[id |-> id,
                                      description |-> actionItem.description,
                                      status |-> "open",
                                      channel_id |-> channelId]
                                     @@ Only(actionItem, {"assignee"})},
         serial |-> id,
         row    |-> [id |-> id]]

\* INSERT INTO action_items (description, assignee, due_date, status,
\* channel_id, message_id) ... RETURNING id, with status || 'open'.  No caller
\* passes messageId.
storeActionItem(table, serial, actionItem, channelId) ==
    LET id      == serial + 1
        dueDate == IF TruthyString(actionItem, "due_date")
                   THEN Only(actionItem, {"due_date"}) ELSE Only(actionItem, {})
        status  == IF TruthyString(actionItem, "status")
                   THEN actionItem.status ELSE "open"
    IN  [table  |-> table \cup {[id |-> id,
                                 description |-> actionItem.description,
                                 status |-> status,
                                 channel_id |-> channelId]
                                @@ Only(actionItem, {"assignee"}) @@ dueDate},
         serial |-> id,
         row    |-> [id |-> id]]

\* INSERT INTO meeting_notes ... with the id of the row bound to channel_id
storeMeetingNotes_ownId(table, serial, notesData, channelId) ==
    LET id == serial + 1
    IN  [table  |-> table \cup {[id |-> id,
                                 title |-> notesData.title,
                                 channel_id |-> id,
                                 start_ts |-> notesData.start_ts,
                                 end_ts |-> notesData.end_ts,
                                 participants |-> notesData.participants,
                                 action_items |-> notesData.action_items,
                                 decisions |-> notesData.decisions]},
         serial |-> id,
         row    |-> [id |-> id]]

\* INSERT INTO meeting_notes (title, summary, channel_id, start_ts, end_ts,
\* participants, action_items, decisions) ... RETURNING id
storeMeetingNotes(table, serial, notesData, channelId) ==
    LET id == serial + 1
    IN  [table  |-> table \cup {[id |-> id,
                                 title |-> notesData.title,
                                 channel_id |-> channelId,
                                 start_ts |-> notesData.start_ts,
                                 end_ts |-> notesData.end_ts,
                                 participants |-> notesData.participants,
                                 action_items |-> notesData.action_items,
                                 decisions |-> notesData.decisions]},
         serial |-> id,
         row    |-> [id |-> id]]

\* the rows of a table in the order of their ids
RECURSIVE RowsById(_)
RowsById(table) ==
    IF table = {} THEN <<>>
    ELSE LET first == CHOOSE row \in table : \A other \in table : row.id <= other.id
         IN  <<first>> \o RowsById(table \ {first})

\* FROM action_items a JOIN channels c ON a.channel_id = c.id
JoinChannels(items, chans) ==
    {j \in {[item |-> a, channel |-> c] : a \in items, c \in chans} :
        j.item.channel_id = j.channel.id}

\* SELECT a.*, c.name as channel_name FROM action_items a JOIN channels c ...
\* with WHERE a.status = $1 if (status)
getActionItems(items, chans, filter) ==
    {j.item @@ [channel_name |-> j.channel.name] :
        j \in {k \in JoinChannels(items, chans) :
                  TruthyString(filter, "status") => k.item.status = filter.status}}

-----------------------------------------------------------------------------
(* mcp/tools: the calls of the MCP tools *)

\* the tables and sequences the tools work on
store ==
    [channels |-> channels, messages |-> messages, meeting_notes |-> meeting_notes,
     action_items |-> action_items, seq |-> seq]

\* messages of the errors the Slack API and the database raise
SlackError == [message |-> "slack_error"]
PoolError  == [message |-> "pool_error"]
QueryError == [message |-> "query_error"]

\* a call of a tool that awaits at pc
Call(tool, args, pc) ==
    [tool |-> tool, args |-> args, pc |-> pc, ok |-> TRUE, error |-> NULL,
     result |-> NULL, connects |-> 0, releases |-> 0, posts |-> <<>>,
     local |-> NULL, nth |-> 0]

\* throw error
toolWrapper_rethrow(name, error) == error

\* throw new Error(`Failed to ${name}: ${error.message}`)
toolWrapper(name, error) == [failed_to |-> name] @@ error

\* the handler throws: the wrapper rethrows
throws(call, error) ==
    [call EXCEPT !.pc = "done", !.ok = FALSE,
                 !.error = toolWrapper(call.tool, error), !.local = NULL]

\* the handler returns
returns(call, result) ==
    [call EXCEPT !.pc = "done", !.result = result, !.local = NULL]

\* a repository method: pool.connect(), one query, finally client.release()
pooled(call, thrown) ==
    IF thrown = "connect" THEN call
    ELSE [call EXCEPT !.connects = @ + 1, !.releases = @ + 1]

\* the error a repository method rethrows
repositoryError(thrown) == IF thrown = "connect" THEN PoolError ELSE QueryError

\* a handler whose finally block does not release the client
release_never(call) == call

\* finally { client.release() }
release(call) == [call EXCEPT !.releases = @ + 1]

\* slackClient.postMessage(channelId, text)
postMessage(call, channelId) == [call EXCEPT !.posts = Append(@, channelId)]

\* what conversations.info answers for a channel
InfoResponses(channel_id) ==
    {[ok |-> TRUE,
      channel |-> [id |-> channel_id, name |-> CHOOSE n \in ChannelNames : TRUE,
                   is_private |-> TRUE]],
     [ok |-> TRUE]}

\* { id: channel_id, name: channelInfo.channel?.name || '',
\*   is_private: channelInfo.channel?.is_private || false }
channelData(channel_id, channelInfo) ==
    [id |-> channel_id,
     name |-> IF Has(channelInfo, "channel") THEN channelInfo.channel.name ELSE "",
     is_private |-> IF Has(channelInfo, "channel")
                    THEN channelInfo.channel.is_private ELSE FALSE]

\* create_follow_up: the await at call.pc settles
create_follow_up(call, db, resp) ==
    IF call.pc = "conversations.info"
    THEN [call |-> IF resp.thrown # "no" THEN throws(call, SlackError)
                   ELSE [call EXCEPT !.pc = "storeChannel",
                                     !.local = [channelInfo |-> resp.value]],
          db   |-> db]
    ELSE IF call.pc = "storeChannel"
    THEN IF resp.thrown # "no"
         THEN [call |-> throws(pooled(call, resp.thrown), repositoryError(resp.thrown)),
               db   |-> db]
         ELSE LET stored == storeChannel(db.channels, db.seq.channels,
                                channelData(call.args.channel_id, call.local.channelInfo))
              IN  [call |-> [pooled(call, "no") EXCEPT
                                !.pc = "storeActionItem",
                                !.local = [channelResult |-> stored.row]],
                   db   |-> [db EXCEPT !.channels = stored.table,
                                       !.seq.channels = stored.serial]]
    ELSE IF call.pc = "storeActionItem"
    THEN IF resp.thrown # "no"
         THEN [call |-> throws(pooled(call, resp.thrown), repositoryError(resp.thrown)),
               db   |-> db]
         ELSE LET actionItem == Only(call.args, {"description", "assignee", "due_date"})
                                    @@ [status |-> "open"]
                  stored == storeActionItem(db.action_items, db.seq.action_items,
                                            actionItem, call.local.channelResult.id)
              IN  [call |-> [pooled(call, "no") EXCEPT !.pc = "postMessage",
                                                       !.local = NULL],
                   db   |-> [db EXCEPT !.action_items = stored.table,
                                       !.seq.action_items = stored.serial]]
    ELSE \* const result = await slackClient.postMessage(channel_id, ...)
         [call |-> IF resp.thrown # "no" THEN throws(call, SlackError)
                   ELSE returns(postMessage(call, call.args.channel_id),
                                Only(call.args, {"description", "assignee", "due_date"})
                                    @@ [status |-> "open"]),
          db   |-> db]

\* UPDATE action_items SET status = $1
updateStatus_everyRow(table, new_status, action_item_id) ==
    {[row EXCEPT !.status = new_status] : row \in table}

\* UPDATE action_items SET status = $1 WHERE id = $2
updateStatus(table, new_status, action_item_id) ==
    {IF row.id = action_item_id THEN [row EXCEPT !.status = new_status] ELSE row :
        row \in table}

\* SELECT a.*, c.slack_id as channel_slack_id FROM action_items a
\* JOIN channels c ON a.channel_id = c.id WHERE a.id = $1
selectActionItem(items, chans, action_item_id) ==
    {j.item @@ [channel_slack_id |-> j.channel.slack_id] :
        j \in {k \in JoinChannels(items, chans) : k.item.id = action_item_id}}

\* if (action_item_id && new_status)
updateMode(args) == TruthyNumber(args, "action_item_id") /\ TruthyString(args, "new_status")

InvalidStatus == [message |-> "Invalid status. Must be one of: open, completed, blocked"]

\* `Action item with ID ${action_item_id} not found`
NotFound(action_item_id) ==
    [message |-> "Action item with ID ${action_item_id} not found",
     action_item_id |-> action_item_id]

\* track_follow_up_status up to its first await, without the check of new_status
track_follow_up_status_unchecked(args) ==
    IF updateMode(args)
    THEN Call("track_follow_up_status", args, "pool.connect")
    ELSE Call("track_follow_up_status", args, "getActionItems")

\* track_follow_up_status up to its first await
track_follow_up_status_begin(args) ==
    IF updateMode(args)
    THEN IF args.new_status \notin {"open", "completed", "blocked"}
         THEN throws(Call("track_follow_up_status", args, ""), InvalidStatus)
         ELSE Call("track_follow_up_status", args, "pool.connect")
    ELSE Call("track_follow_up_status", args, "getActionItems")

\* track_follow_up_status: the await at call.pc settles
track_follow_up_status(call, db, resp) ==
    IF call.pc = "pool.connect"
    THEN [call |-> IF resp.thrown # "no" THEN throws(call, PoolError)
                   ELSE [call EXCEPT !.pc = "UPDATE", !.connects = @ + 1],
          db   |-> db]
    ELSE IF call.pc = "UPDATE"
    THEN IF resp.thrown # "no"
         THEN [call |-> throws(release(call), QueryError), db |-> db]
         ELSE [call |-> [call EXCEPT !.pc = "SELECT"],
               db   |-> [db EXCEPT !.action_items =
                            updateStatus(@, call.args.new_status,
                                         call.args.action_item_id)]]
    ELSE IF call.pc = "SELECT"
    THEN LET rows == selectActionItem(db.action_items, db.channels,
                                      call.args.action_item_id)
         IN  [call |-> IF resp.thrown # "no" THEN throws(release(call), QueryError)
                       ELSE IF rows = {}
                       THEN throws(release(call), NotFound(call.args.action_item_id))
                       ELSE [call EXCEPT !.pc = "postMessage",
                                         !.local = [actionItem |->
                                                        CHOOSE row \in rows : TRUE]],
              db   |-> db]
    ELSE IF call.pc = "postMessage"
    THEN LET actionItem == call.local.actionItem
         IN  [call |-> IF resp.thrown # "no" THEN throws(release(call), SlackError)
                       ELSE returns(release(postMessage(call, actionItem.channel_slack_id)),
                                [id |-> actionItem.id,
                                 description |-> actionItem.description,
                                 status |-> call.args.new_status,
                                 updated |-> TRUE]
                                @@ Only(actionItem, {"assignee"})),
              db   |-> db]
    ELSE \* const actionItems = await contextRepository.getActionItems(status)
         [call |-> IF resp.thrown # "no"
                   THEN throws(pooled(call, resp.thrown), repositoryError(resp.thrown))
                   ELSE returns(pooled(call, "no"),
                                [rows |-> getActionItems(db.action_items, db.channels,
                                                         Only(call.args, {"status"}))]),
          db   |-> db]

\* SELECT a.*, c.slack_id as channel_slack_id, c.name as channel_name
\* FROM action_items a JOIN channels c ON a.channel_id = c.id
selectOpenItems_anyStatus(items, chans) ==
    {j.item @@ [channel_slack_id |-> j.channel.slack_id, channel_name |-> j.channel.name] :
        j \in JoinChannels(items, chans)}

\* SELECT a.*, c.slack_id as channel_slack_id, c.name as channel_name
\* FROM action_items a JOIN channels c ON a.channel_id = c.id
\* WHERE a.status = 'open'
selectOpenItems(items, chans) ==
    {j.item @@ [channel_slack_id |-> j.channel.slack_id, channel_name |-> j.channel.name] :
        j \in {k \in JoinChannels(items, chans) : k.item.status = "open"}}

\* the query text carries ` AND c.slack_id = ${paramIndex}` or
\* ` AND a.due_date < ${paramIndex}`: the number paramIndex where a
\* placeholder belongs, and a parameter the statement has no place for
malformedQuery(args) ==
    TruthyString(args, "channel_id") \/ (Has(args, "days_overdue") /\ args.days_overdue > 0)

\* remind_action_items: the await at call.pc settles
remind_action_items(call, db, resp) ==
    IF call.pc = "pool.connect"
    THEN [call |-> IF resp.thrown # "no" THEN throws(call, PoolError)
                   ELSE [call EXCEPT !.pc = "query", !.connects = @ + 1],
          db   |-> db]
    ELSE IF call.pc = "query"
    THEN LET actionItems == RowsById(selectOpenItems(db.action_items, db.channels))
         IN  [call |-> IF resp.thrown # "no" \/ malformedQuery(call.args)
                       THEN throws(release(call), QueryError)
                       ELSE IF actionItems = <<>>
                       THEN returns(release(call), [reminders_sent |-> 0])
                       ELSE [call EXCEPT !.pc = "postMessage",
                                         !.local = [actionItems |-> actionItems,
                                                    remindersSent |-> 0]],
              db   |-> db]
    ELSE \* await slackClient.postMessage(item.channel_slack_id, reminderMessage)
         LET item == Head(call.local.actionItems)
             rest == Tail(call.local.actionItems)
             sent == postMessage(call, item.channel_slack_id)
         IN  [call |-> IF resp.thrown # "no" THEN throws(release(call), SlackError)
                       ELSE IF rest = <<>>
                       THEN returns(release(sent),
                                [reminders_sent |-> call.local.remindersSent + 1])
                       ELSE [sent EXCEPT !.local.actionItems = rest,
                                         !.local.remindersSent = @ + 1],
              db   |-> db]

\* text.includes(word), on the words of a text
includes(text, word) == \E i \in DOMAIN text : text[i] = word

\* text.includes('action item')
includesActionItem(text) ==
    \E i \in DOMAIN text : i + 1 \in DOMAIN text /\ text[i] = "action" /\ text[i + 1] = "item"

\* the mention of a user in a text, <@U...>
Mention(user) == IF user = "U1" THEN "<@U1>" ELSE "<@U2>"

Mentions == {Mention(user) : user \in UserIds}

\* /(?:@\w+|<@[^>]+>).*\b(?:will|should|needs? to|must)\b/i
mentionsObligation(text) ==
    \E i, j \in DOMAIN text :
        /\ i < j
        /\ text[i] \in Mentions
        /\ \/ text[j] \in {"will", "should", "must"}
           \/ text[j] \in {"need", "needs"} /\ j + 1 \in DOMAIN text /\ text[j + 1] = "to"

isActionItem(text) ==
    includes(text, "todo") \/ includesActionItem(text) \/ mentionsObligation(text)

isDecision(text) ==
    \E word \in {"decided", "decision", "conclude", "agreement"} : includes(text, word)

\* the user of the last mention
mentionMatch_last(text) ==
    LET at == {i \in DOMAIN text : text[i] \in Mentions}
    IN  IF at = {} THEN {}
        ELSE {user \in UserIds :
                 Mention(user) = text[CHOOSE i \in at : \A j \in at : i >= j]}

\* (msg.text ?? '').match(/<@([A-Z0-9]+)>/): the user of the first mention
mentionMatch(text) ==
    LET at == {i \in DOMAIN text : text[i] \in Mentions}
    IN  IF at = {} THEN {}
        ELSE {user \in UserIds :
                 Mention(user) = text[CHOOSE i \in at : \A j \in at : i <= j]}

\* allMessages.filter(msg => ts >= parseFloat(start_ts) && ts < parseFloat(end_ts))
RECURSIVE timeframe_exclusive(_, _, _)
timeframe_exclusive(allMessages, start_ts, end_ts) ==
    IF allMessages = <<>> THEN <<>>
    ELSE LET msg == Head(allMessages)
             ts  == IF Has(msg, "ts") THEN msg.ts ELSE 0
         IN  (IF ts >= start_ts /\ ts < end_ts THEN <<msg>> ELSE <<>>)
             \o timeframe_exclusive(Tail(allMessages), start_ts, end_ts)

\* allMessages.filter(msg => { const ts = msg.ts ? parseFloat(msg.ts) : 0;
\*   return ts >= parseFloat(start_ts) && ts <= parseFloat(end_ts) })
RECURSIVE timeframe(_, _, _)
timeframe(allMessages, start_ts, end_ts) ==
    IF allMessages = <<>> THEN <<>>
    ELSE LET msg == Head(allMessages)
             ts  == IF Has(msg, "ts") THEN msg.ts ELSE 0
         IN  (IF ts >= start_ts /\ ts <= end_ts THEN <<msg>> ELSE <<>>)
             \o timeframe(Tail(allMessages), start_ts, end_ts)

\* [...new Set(meetingMessages.map(msg => msg.user))]
RECURSIVE participantIds(_)
participantIds(msgs) ==
    IF msgs = <<>> THEN <<>>
    ELSE LET before == participantIds(SubSeq(msgs, 1, Len(msgs) - 1))
             user   == msgs[Len(msgs)].user
         IN  IF \E i \in DOMAIN before : before[i] = user THEN before
             ELSE Append(before, user)

\* the action items create_meeting_notes finds: the author is the assignee
RECURSIVE meetingActionItems(_)
meetingActionItems(msgs) ==
    IF msgs = <<>> THEN <<>>
    ELSE LET msg == Head(msgs)
         IN  (IF isActionItem(msg.text)
              THEN <<[description |-> msg.text, assignee |-> msg.user]>> ELSE <<>>)
             \o meetingActionItems(Tail(msgs))

RECURSIVE meetingDecisions(_)
meetingDecisions(msgs) ==
    IF msgs = <<>> THEN <<>>
    ELSE LET msg == Head(msgs)
         IN  (IF isDecision(msg.text)
              THEN <<[text |-> msg.text, user |-> msg.user]>> ELSE <<>>)
             \o meetingDecisions(Tail(msgs))

\* the action items extract_action_items finds: the first user mentioned is
\* the assignee, else the author
RECURSIVE extractedActionItems(_)
extractedActionItems(msgs) ==
    IF msgs = <<>> THEN <<>>
    ELSE LET msg     == Head(msgs)
             matched == mentionMatch(msg.text)
         IN  (IF isActionItem(msg.text)
              THEN <<[description |-> msg.text,
                      assignee |-> IF matched = {} THEN msg.user
                                   ELSE CHOOSE user \in matched : TRUE]
                     @@ (IF Has(msg, "ts") THEN [message_ts |-> msg.ts] ELSE <<>>)>>
              ELSE <<>>)
             \o extractedActionItems(Tail(msgs))

NoMessages == [message |-> "No messages found in the specified time range"]

\* user?.real_name || user?.name || id, for the users of the workspace
realName(id) == IF id = "U1" THEN "Ann" ELSE "Bob"

\* post_to_channel = false
postToChannel_defaultFalse(args) ==
    IF Has(args, "post_to_channel") THEN args.post_to_channel ELSE FALSE

\* post_to_channel = true
postToChannel(args) == IF Has(args, "post_to_channel") THEN args.post_to_channel ELSE TRUE

\* create_meeting_notes: the await at call.pc settles
create_meeting_notes(call, db, resp) ==
    IF call.pc = "conversations.info"
    THEN [call |-> IF resp.thrown # "no" THEN throws(call, SlackError)
                   ELSE [call EXCEPT !.pc = "getChannelHistory",
                                     !.local = [channelInfo |-> resp.value]],
          db   |-> db]
    ELSE IF call.pc = "getChannelHistory"
    THEN LET meetingMessages == timeframe(resp.value, call.args.start_ts, call.args.end_ts)
         IN  [call |-> IF resp.thrown # "no" THEN throws(call, SlackError)
                       ELSE IF meetingMessages = <<>> THEN throws(call, NoMessages)
                       ELSE [call EXCEPT
                                !.pc = "getUserInfo",
                                !.local = [channelInfo |-> call.local.channelInfo,
                                           participantIds |-> participantIds(meetingMessages),
                                           actionItems |-> meetingActionItems(meetingMessages),
                                           decisions |-> meetingDecisions(meetingMessages)]],
              db   |-> db]
    ELSE IF call.pc = "getUserInfo"
    THEN [call |-> IF resp.thrown # "no" THEN throws(call, SlackError)
                   ELSE [call EXCEPT
                            !.pc = "storeChannel",
                            !.local = [channelInfo |-> call.local.channelInfo,
                                       participants |->
                                           [i \in DOMAIN call.local.participantIds |->
                                               realName(call.local.participantIds[i])],
                                       actionItems |-> call.local.actionItems,
                                       decisions |-> call.local.decisions]],
          db   |-> db]
    ELSE IF call.pc = "storeChannel"
    THEN IF resp.thrown # "no"
         THEN [call |-> throws(pooled(call, resp.thrown), repositoryError(resp.thrown)),
               db   |-> db]
         ELSE LET stored == storeChannel(db.channels, db.seq.channels,
                                channelData(call.args.channel_id, call.local.channelInfo))
              IN  [call |-> [pooled(call, "no") EXCEPT
                                !.pc = "storeMeetingNotes",
                                !.local = [channelResult |-> stored.row,
                                           participants |-> call.local.participants,
                                           actionItems |-> call.local.actionItems,
                                           decisions |-> call.local.decisions]],
                   db   |-> [db EXCEPT !.channels = stored.table,
                                       !.seq.channels = stored.serial]]
    ELSE IF call.pc = "storeMeetingNotes"
    THEN IF resp.thrown # "no"
         THEN [call |-> throws(pooled(call, resp.thrown), repositoryError(resp.thrown)),
               db   |-> db]
         ELSE LET meetingNotes == [title |-> call.args.title,
                                   start_ts |-> call.args.start_ts,
                                   end_ts |-> call.args.end_ts,
                                   participants |-> call.local.participants,
                                   action_items |-> call.local.actionItems,
                                   decisions |-> call.local.decisions]
                  stored == storeMeetingNotes(db.meeting_notes, db.seq.meeting_notes,
                                              meetingNotes, call.local.channelResult.id)
                  result == [title |-> call.args.title,
                             participants |-> call.local.participants,
                             action_items |-> call.local.actionItems,
                             decisions |-> call.local.decisions,
                             posted |-> postToChannel(call.args)]
                  stepped == [pooled(call, "no") EXCEPT
                                 !.local = [channelResult |-> call.local.channelResult,
                                            actionItems |-> call.local.actionItems,
                                            result |-> result]]
              IN  [call |-> IF postToChannel(call.args)
                            THEN [stepped EXCEPT !.pc = "postMessage"]
                            ELSE IF call.local.actionItems = <<>>
                            THEN returns(stepped, result)
                            ELSE [stepped EXCEPT !.pc = "storeActionItem"],
                   db   |-> [db EXCEPT !.meeting_notes = stored.table,
                                       !.seq.meeting_notes = stored.serial]]
    ELSE IF call.pc = "postMessage"
    THEN [call |-> IF resp.thrown # "no" THEN throws(call, SlackError)
                   ELSE IF call.local.actionItems = <<>>
                   THEN returns(postMessage(call, call.args.channel_id), call.local.result)
                   ELSE [postMessage(call, call.args.channel_id) EXCEPT
                            !.pc = "storeActionItem"],
          db   |-> db]
    ELSE \* for (const item of actionItems) await contextRepository.storeActionItem(...)
         IF resp.thrown # "no"
         THEN [call |-> throws(pooled(call, resp.thrown), repositoryError(resp.thrown)),
               db   |-> db]
         ELSE LET stored == storeActionItem(db.action_items, db.seq.action_items,
                                            Head(call.local.actionItems),
                                            call.local.channelResult.id)
                  rest   == Tail(call.local.actionItems)
              IN  [call |-> IF rest = <<>>
                            THEN returns(pooled(call, "no"), call.local.result)
                            ELSE [pooled(call, "no") EXCEPT !.local.actionItems = rest],
                   db   |-> [db EXCEPT !.action_items = stored.table,
                                       !.seq.action_items = stored.serial]]

\* start_ts = '0', end_ts = String(Date.now() / 1000), post_summary = false
extract_action_items_begin(args, t) ==
    Call("extract_action_items",
         args @@ [start_ts |-> 0, end_ts |-> t, post_summary |-> FALSE],
         "conversations.info")

\* extract_action_items: the await at call.pc settles
extract_action_items(call, db, resp) ==
    IF call.pc = "conversations.info"
    THEN [call |-> IF resp.thrown # "no" THEN throws(call, SlackError)
                   ELSE [call EXCEPT !.pc = "getChannelHistory",
                                     !.local = [channelInfo |-> resp.value]],
          db   |-> db]
    ELSE IF call.pc = "getChannelHistory"
    THEN LET timeframeMessages == timeframe(resp.value, call.args.start_ts,
                                            call.args.end_ts)
         IN  [call |-> IF resp.thrown # "no" THEN throws(call, SlackError)
                       ELSE IF timeframeMessages = <<>> THEN throws(call, NoMessages)
                       ELSE [call EXCEPT
                                !.pc = "storeChannel",
                                !.local = [channelInfo |-> call.local.channelInfo,
                                           actionItems |->
                                               extractedActionItems(timeframeMessages)]],
              db   |-> db]
    ELSE IF call.pc = "storeChannel"
    THEN IF resp.thrown # "no"
         THEN [call |-> throws(pooled(call, resp.thrown), repositoryError(resp.thrown)),
               db   |-> db]
         ELSE LET stored == storeChannel(db.channels, db.seq.channels,
                                channelData(call.args.channel_id, call.local.channelInfo))
                  actionItems == call.local.actionItems
                  stepped == [pooled(call, "no") EXCEPT
                                 !.local = [channelResult |-> stored.row,
                                            actionItems |-> actionItems,
                                            todo |-> actionItems]]
              IN  [call |-> IF actionItems = <<>>
                            THEN returns(stepped, [action_items |-> actionItems])
                            ELSE [stepped EXCEPT !.pc = "storeActionItem"],
                   db   |-> [db EXCEPT !.channels = stored.table,
                                       !.seq.channels = stored.serial]]
    ELSE IF call.pc = "storeActionItem"
    THEN IF resp.thrown # "no"
         THEN [call |-> throws(pooled(call, resp.thrown), repositoryError(resp.thrown)),
               db   |-> db]
         ELSE LET stored == storeActionItem(db.action_items, db.seq.action_items,
                                            Head(call.local.todo),
                                            call.local.channelResult.id)
                  rest   == Tail(call.local.todo)
                  result == [action_items |-> call.local.actionItems]
              IN  [call |-> IF rest # <<>>
                            THEN [pooled(call, "no") EXCEPT !.local.todo = rest]
                            ELSE IF call.args.post_summary
                            THEN [pooled(call, "no") EXCEPT !.pc = "postMessage",
                                                            !.local.todo = rest]
                            ELSE returns(pooled(call, "no"), result),
                   db   |-> [db EXCEPT !.action_items = stored.table,
                                       !.seq.action_items = stored.serial]]
    ELSE \* await slackClient.postMessage(channel_id, summary)
         [call |-> IF resp.thrown # "no" THEN throws(call, SlackError)
                   ELSE returns(postMessage(call, call.args.channel_id),
                                [action_items |-> call.local.actionItems]),
          db   |-> db]

\* get_channel_history and get_thread_replies: the await at call.pc settles.
\* The channel is stored as { id: channel_id, name: '', is_private: false }.
get_channel_history(call, db, resp) ==
    IF call.pc \in {"getChannelHistory", "getThreadReplies"}
    THEN [call |-> IF resp.thrown # "no" THEN throws(call, SlackError)
                   ELSE [call EXCEPT !.pc = "storeChannel",
                                     !.local = [messages |-> resp.value]],
          db   |-> db]
    ELSE IF call.pc = "storeChannel"
    THEN IF resp.thrown # "no"
         THEN [call |-> throws(pooled(call, resp.thrown), repositoryError(resp.thrown)),
               db   |-> db]
         ELSE LET stored == storeChannel(db.channels, db.seq.channels,
                                [id |-> call.args.channel_id, name |-> "",
                                 is_private |-> FALSE])
                  fetched == call.local.messages
                  stepped == [pooled(call, "no") EXCEPT
                                 !.local = [channelResult |-> stored.row,
                                            messages |-> fetched,
                                            todo |-> fetched]]
              IN  [call |-> IF fetched = <<>>
                            THEN returns(stepped, [messages |-> fetched])
                            ELSE [stepped EXCEPT !.pc = "storeMessage"],
                   db   |-> [db EXCEPT !.channels = stored.table,
                                       !.seq.channels = stored.serial]]
    ELSE \* for (const message of messages) await contextRepository.storeMessage(...)
         IF resp.thrown # "no"
         THEN [call |-> throws(pooled(call, resp.thrown), repositoryError(resp.thrown)),
               db   |-> db]
         ELSE LET stored == storeMessage(db.messages, db.seq.messages,
                                         Head(call.local.todo),
                                         call.local.channelResult.id)
                  rest   == Tail(call.local.todo)
              IN  [call |-> IF rest = <<>>
                            THEN returns(pooled(call, "no"),
                                         [messages |-> call.local.messages])
                            ELSE [pooled(call, "no") EXCEPT !.local.todo = rest],
                   db   |-> [db EXCEPT !.messages = stored.table,
                                       !.seq.messages = stored.serial]]

\* list_channels: the await at call.pc settles
list_channels(call, db, resp) ==
    IF call.pc = "getChannels"
    THEN [call |-> IF resp.thrown # "no" THEN throws(call, SlackError)
                   ELSE IF resp.value = <<>> THEN returns(call, [channels |-> <<>>])
                   ELSE [call EXCEPT !.pc = "storeChannel",
                                     !.local = [channels |-> resp.value,
                                                todo |-> resp.value]],
          db   |-> db]
    ELSE \* for (const channel of channels) await contextRepository.storeChannel(channel)
         IF resp.thrown # "no"
         THEN [call |-> throws(pooled(call, resp.thrown), repositoryError(resp.thrown)),
               db   |-> db]
         ELSE LET stored == storeChannel(db.channels, db.seq.channels,
                                         Head(call.local.todo))
                  rest   == Tail(call.local.todo)
              IN  [call |-> IF rest = <<>>
                            THEN returns(pooled(call, "no"),
                                         [channels |-> call.local.channels])
                            ELSE [pooled(call, "no") EXCEPT !.local.todo = rest],
                   db   |-> [db EXCEPT !.channels = stored.table,
                                       !.seq.channels = stored.serial]]

\* get_channel_info: the await at call.pc settles
get_channel_info(call, db, resp) ==
    IF call.pc = "conversations.info"
    THEN [call |-> IF resp.thrown # "no" THEN throws(call, SlackError)
                   ELSE IF Has(resp.value, "channel")
                   THEN [call EXCEPT !.pc = "storeChannel",
                                     !.local = [info |-> resp.value]]
                   ELSE returns(call, resp.value),
          db   |-> db]
    ELSE \* await contextRepository.storeChannel(info.channel)
         IF resp.thrown # "no"
         THEN [call |-> throws(pooled(call, resp.thrown), repositoryError(resp.thrown)),
               db   |-> db]
         ELSE LET stored == storeChannel(db.channels, db.seq.channels,
                                         call.local.info.channel)
              IN  [call |-> returns(pooled(call, "no"), call.local.info),
                   db   |-> [db EXCEPT !.channels = stored.table,
                                       !.seq.channels = stored.serial]]

-----------------------------------------------------------------------------
(* the tools as the MCP server calls them *)

\* the handler of a tool up to its first await; t is the time of the call
begin(tool, args, t) ==
    IF tool = "track_follow_up_status" THEN track_follow_up_status_begin(args)
    ELSE IF tool = "extract_action_items" THEN extract_action_items_begin(args, t)
    ELSE IF tool = "remind_action_items" THEN Call(tool, args, "pool.connect")
    ELSE IF tool = "get_channel_history" THEN Call(tool, args, "getChannelHistory")
    ELSE IF tool = "get_thread_replies" THEN Call(tool, args, "getThreadReplies")
    ELSE IF tool = "list_channels" THEN Call(tool, args, "getChannels")
    ELSE Call(tool, args, "conversations.info")

\* the await of a call settles: resp.thrown says whether it throws, and
\* resp.value is what the Slack API answers
settle(call, db, resp) ==
    IF call.tool = "create_follow_up" THEN create_follow_up(call, db, resp)
    ELSE IF call.tool = "track_follow_up_status" THEN track_follow_up_status(call, db, resp)
    ELSE IF call.tool = "remind_action_items" THEN remind_action_items(call, db, resp)
    ELSE IF call.tool = "create_meeting_notes" THEN create_meeting_notes(call, db, resp)
    ELSE IF call.tool = "extract_action_items" THEN extract_action_items(call, db, resp)
    ELSE IF call.tool \in {"get_channel_history", "get_thread_replies"}
    THEN get_channel_history(call, db, resp)
    ELSE IF call.tool = "list_channels" THEN list_channels(call, db, resp)
    ELSE get_channel_info(call, db, resp)

\* an optional argument
Opt(field, values) == {<<>>} \cup {[f \in {field} |-> v] : v \in values}

Descriptions == {<<"ship", "it">>}

\* a due date, in ISO format
DueDate == "2025-01-15"

FollowUpCalls ==
    {[tool |-> "create_follow_up",
      args |-> [channel_id |-> c, description |-> d] @@ a] :
        c \in ChannelIds, d \in Descriptions,
        a \in {<<>>, [assignee |-> "U1", due_date |-> DueDate]}}
    \cup
    {[tool |-> "track_follow_up_status", args |-> i @@ n] :
        i \in Opt("action_item_id", 0..(MaxSerial + 1)),
        n \in Opt("new_status", Statuses \cup {"done", ""})}
    \cup
    {[tool |-> "track_follow_up_status", args |-> [status |-> s]] :
        s \in {"open", "completed"}}
    \cup
    {[tool |-> "remind_action_items", args |-> c @@ d] :
        c \in Opt("channel_id", {"C1"}), d \in Opt("days_overdue", {0, 1})}

NoteCalls ==
    {[tool |-> "create_meeting_notes",
      args |-> [channel_id |-> c, start_ts |-> st, end_ts |-> 2, title |-> "standup"] @@ p] :
        c \in ChannelIds, st \in MessageTs, p \in Opt("post_to_channel", BOOLEAN)}
    \cup
    {[tool |-> "extract_action_items", args |-> [channel_id |-> c] @@ r @@ p] :
        c \in ChannelIds, r \in {<<>>, [start_ts |-> 2], [end_ts |-> 1]},
        p \in Opt("post_summary", {TRUE})}

ChannelCalls ==
    {[tool |-> "get_channel_history", args |-> [channel_id |-> c]] : c \in ChannelIds}
    \cup
    {[tool |-> "get_thread_replies", args |-> [channel_id |-> c, thread_ts |-> 1]] :
        c \in ChannelIds}
    \cup
    {[tool |-> "get_channel_info", args |-> [channel_id |-> c]] : c \in ChannelIds}
    \cup
    {[tool |-> "list_channels", args |-> <<>>]}

\* messages Slack holds
Hello ==
    [ts |-> 1, user |-> "U2", text |-> <<"hello">>,
     thread_ts |-> NULL, attachments |-> FALSE]
Decided ==
    [ts |-> 1, user |-> "U1", text |-> <<"we", "decided">>,
     thread_ts |-> NULL, attachments |-> FALSE]
Todo ==
    [ts |-> 2, user |-> "U2", text |-> <<"todo", "ship", "it">>,
     thread_ts |-> NULL, attachments |-> FALSE]
WillDeploy ==
    [ts |-> 2, user |-> "U1", text |-> <<"<@U2>", "<@U1>", "will", "deploy">>,
     thread_ts |-> NULL, attachments |-> FALSE]

\* a message that carries no ts
Undated ==
    [user |-> "U1", text |-> <<"todo", "ship", "it">>,
     thread_ts |-> NULL, attachments |-> FALSE]

\* what conversations.history and conversations.replies answer, newest first
Histories == {<<>>, <<Hello>>, <<Todo, Hello>>, <<WillDeploy, Decided>>}

\* the tools that analyse a conversation
NoteTools == {"create_meeting_notes", "extract_action_items"}

\* what conversations.history answers to the tools that analyse a conversation
NoteHistories == Histories \cup {<<Undated>>}

\* what conversations.list answers
ChannelLists ==
    {<<>>} \cup {<<c>> : c \in ChannelInfos("C1")} \cup
    {<<c, d>> : c \in ChannelInfos("C1"), d \in ChannelInfos("C2")}

SlackCalls ==
    {"conversations.info", "getChannelHistory", "getThreadReplies", "getChannels",
     "getUserInfo", "postMessage"}

\* what the call awaited at call.pc can answer
Responses(call) ==
    IF call.pc = "conversations.info" THEN InfoResponses(call.args.channel_id)
    ELSE IF call.pc \in {"getChannelHistory", "getThreadReplies"}
    THEN IF call.tool \in NoteTools THEN NoteHistories ELSE Histories
    ELSE IF call.pc = "getChannels" THEN ChannelLists
    ELSE {NULL}

\* how the call awaited at pc can fail
Thrown(pc) ==
    IF pc \in SlackCalls THEN {"api"}
    ELSE IF pc = "pool.connect" THEN {"connect"}
    ELSE IF pc \in {"UPDATE", "SELECT", "query"} THEN {"query"}
    ELSE {"connect", "query"}

NoCall == Call("", NULL, "done")

\* the call awaited at pc draws from sequences that have values left
SerialsLeft(call, db) ==
    /\ call.pc = "storeChannel" => db.seq.channels < MaxSerial
    /\ call.pc = "storeMessage" => db.seq.messages < MaxSerial
    /\ call.pc = "storeMeetingNotes" => db.seq.meeting_notes < MaxSerial
    /\ call.pc = "storeActionItem" => db.seq.action_items < MaxSerial

eventVars == <<now, reqs, boot>>

\* the MCP server calls a tool (one of calls) in a run of at most bound calls
InvokeWithin(calls, bound) ==
    /\ toolCall.pc = "done"
    /\ toolCall.nth < bound
    /\ \E c \in calls :
        toolCall' = [begin(c.tool, c.args, now) EXCEPT !.nth = toolCall.nth + 1]
    /\ UNCHANGED <<tables, seq, eventVars>>

\* the MCP server calls a tool (one of calls)
Invoke(calls) ==
    /\ toolCall.pc = "done"
    /\ toolCall.nth < MaxCalls
    /\ \E c \in calls :
        toolCall' = [begin(c.tool, c.args, now) EXCEPT !.nth = toolCall.nth + 1]
    /\ UNCHANGED <<tables, seq, eventVars>>

\* the call the tool awaits returns
ToolReturn ==
    /\ toolCall.pc # "done"
    /\ SerialsLeft(toolCall, store)
    /\ \E value \in Responses(toolCall) :
        LET next == settle(toolCall, store, [thrown |-> "no", value |-> value])
        IN  /\ toolCall' = next.call
            /\ channels' = next.db.channels
            /\ messages' = next.db.messages
            /\ meeting_notes' = next.db.meeting_notes
            /\ action_items' = next.db.action_items
            /\ seq' = next.db.seq
    /\ UNCHANGED eventVars

\* the call the tool awaits throws
ToolThrow ==
    /\ toolCall.pc # "done"
    /\ \E thrown \in Thrown(toolCall.pc) :
        toolCall' = settle(toolCall, store, [thrown |-> thrown, value |-> NULL]).call
    /\ UNCHANGED <<tables, seq, eventVars>>

-----------------------------------------------------------------------------
(* index.ts: the startup of the process *)

\* the variables validateConfig requires
Required == <<"SLACK_BOT_TOKEN", "SLACK_SIGNING_SECRET", "DB_PASSWORD">>

\* process.env: a variable is unset, empty or set
Envs ==
    {a @@ b @@ c : a \in Opt("SLACK_BOT_TOKEN", {"", "xoxb"}),
                   b \in Opt("SLACK_SIGNING_SECRET", {"", SigningSecret}),
                   c \in Opt("DB_PASSWORD", {"", "postgres"})}

\* the entry points: index.ts starts the MCP server, the later one starts the
\* MCP server and the events server
Entries == {"mcp", "mcp+events"}

\* the error validateConfig throws, NULL if it returns; without the check of
\* the database password
validateConfig_noPassword(env) ==
    IF ~TruthyString(env, "SLACK_BOT_TOKEN")
    THEN [message |-> "SLACK_BOT_TOKEN is required"]
    ELSE IF ~TruthyString(env, "SLACK_SIGNING_SECRET")
    THEN [message |-> "SLACK_SIGNING_SECRET is required"]
    ELSE NULL

\* the error validateConfig throws, NULL if it returns
validateConfig(env) ==
    IF ~TruthyString(env, "SLACK_BOT_TOKEN")
    THEN [message |-> "SLACK_BOT_TOKEN is required"]
    ELSE IF ~TruthyString(env, "SLACK_SIGNING_SECRET")
    THEN [message |-> "SLACK_SIGNING_SECRET is required"]
    ELSE IF ~TruthyString(env, "DB_PASSWORD")
    THEN [message |-> "DB_PASSWORD is required"]
    ELSE NULL

\* main() is called
Main(entry, env) ==
    [pc |-> "validateConfig", entry |-> entry, env |-> env, log |-> <<>>,
     mcp |-> "no", events |-> "no", connects |-> 0, releases |-> 0]

\* catch (error) { console.error(...); process.exit(1) }
exit1(b, error) == [b EXCEPT !.pc = "exited"] @@ [code |-> 1, error |-> error]

\* main up to its first await: validateConfig(), then initializeDatabase() up
\* to pool.connect()
ValidateConfig ==
    /\ boot.pc = "validateConfig"
    /\ LET error == validateConfig(boot.env)
       IN  boot' = IF error # NULL THEN exit1(boot, error)
                   ELSE [boot EXCEPT !.pc = "pool.connect",
                                     !.log = Append(@, "validateConfig")]
    /\ UNCHANGED <<tables, seq, now, reqs, toolCall>>

\* initializeDatabase: pool.connect() returns a client
DatabaseConnects ==
    /\ boot.pc = "pool.connect"
    /\ boot' = [boot EXCEPT !.pc = "CREATE TABLE", !.connects = @ + 1]
    /\ UNCHANGED <<tables, seq, now, reqs, toolCall>>

\* initializeDatabase: CREATE TABLE IF NOT EXISTS ... returns; finally
\* client.release(); then startMcpServer() up to server.connect(transport)
\* and, in the entry point with the events server, startSlackEventsServer()
\* with its app.listen(PORT)
TablesCreated ==
    /\ boot.pc = "CREATE TABLE"
    /\ boot' = [boot EXCEPT
                   !.pc = "server.connect",
                   !.releases = @ + 1,
                   !.log = @ \o <<"initializeDatabase", "startMcpServer">>
                             \o (IF boot.entry = "mcp+events"
                                 THEN <<"startSlackEventsServer">> ELSE <<>>),
                   !.mcp = "connecting",
                   !.events = IF boot.entry = "mcp+events" THEN "listening" ELSE "no"]
    /\ UNCHANGED <<tables, seq, now, reqs, toolCall>>

\* initializeDatabase throws: pool.connect() rejects, or the query rejects and
\* the client is released
DatabaseFails ==
    /\ boot.pc \in {"pool.connect", "CREATE TABLE"}
    /\ boot' = IF boot.pc = "pool.connect" THEN exit1(boot, PoolError)
               ELSE exit1([boot EXCEPT !.releases = @ + 1], QueryError)
    /\ UNCHANGED <<tables, seq, now, reqs, toolCall>>

\* server.connect(transport) returns: the MCP server serves
McpConnects ==
    /\ boot.pc = "server.connect"
    /\ boot' = [boot EXCEPT !.pc = "running", !.mcp = "started"]
    /\ UNCHANGED <<tables, seq, now, reqs, toolCall>>

\* server.connect(transport) rejects
McpFails ==
    /\ boot.pc = "server.connect"
    /\ boot' = exit1([boot EXCEPT !.mcp = "failed"], [message |-> "transport_error"])
    /\ UNCHANGED <<tables, seq, now, reqs, toolCall>>

\* the process after a start with the events server
Serving ==
    [Main("mcp+events", [SLACK_BOT_TOKEN |-> "xoxb",
                         SLACK_SIGNING_SECRET |-> SigningSecret,
                         DB_PASSWORD |-> "postgres"])
        EXCEPT !.pc = "running", !.mcp = "started", !.events = "listening",
               !.connects = 1, !.releases = 1,
               !.log = <<"validateConfig", "initializeDatabase", "startMcpServer",
                         "startSlackEventsServer">>]

Init ==
    /\ channels = {}
    /\ messages = {}
    /\ meeting_notes = {}
    /\ action_items = {}
    /\ seq = [channels |-> 0, messages |-> 0, meeting_notes |-> 0, action_items |-> 0]
    /\ now = Epoch
    /\ reqs = [r \in Slots |-> IdleSlot]
    /\ toolCall = NoCall
    /\ boot = Serving

\* the process is started, by either entry point, in an environment
StartupInit ==
    /\ channels = {}
    /\ messages = {}
    /\ meeting_notes = {}
    /\ action_items = {}
    /\ seq = [channels |-> 0, messages |-> 0, meeting_notes |-> 0, action_items |-> 0]
    /\ now = Epoch
    /\ reqs = [r \in Slots |-> IdleSlot]
    /\ toolCall = NoCall
    /\ boot \in {Main(entry, env) : entry \in Entries, env \in Envs}

StartupNext ==
    \/ ValidateConfig
    \/ DatabaseConnects
    \/ TablesCreated
    \/ DatabaseFails
    \/ McpConnects
    \/ McpFails

StartupSpec == StartupInit /\ [][StartupNext]_vars


\* the slot of the events server that handles one request at a time
Serial == 1

FollowUpNext ==
    \/ Invoke(FollowUpCalls)
    \/ ToolReturn
    \/ ToolThrow

\* the follow-up tools, one call at a time
FollowUpSpec == Init /\ [][FollowUpNext]_vars

NotesNext ==
    \/ Invoke(NoteCalls)
    \/ ToolReturn
    \/ ToolThrow

NotesSpec == Init /\ [][NotesNext]_vars

\* the calls of all the tools; the notes tools with their default options
ToolCalls ==
    FollowUpCalls \cup ChannelCalls \cup
    {c \in NoteCalls : /\ c.args.channel_id = "C1"
                       /\ ~Has(c.args, "post_to_channel")
                       /\ ~Has(c.args, "post_summary")}

ToolsNext ==
    \/ Invoke(ToolCalls)
    \/ ToolReturn
    \/ ToolThrow

ToolsSpec == Init /\ [][ToolsNext]_vars

EventsNext ==
    \/ Arrive(Serial, Requests)
    \/ Handle(Serial)
    \/ Return(Serial)
    \/ Throw(Serial)
    \/ Close(Serial)
    \/ Tick

\* the events server, one request at a time
EventsSpec == Init /\ [][EventsNext]_vars

\* the requests sent while another request is being processed
ConcurrentRequests ==
    {Request(PostSlackEvents, PastTimestamp,
             mySignature([timestamp |-> PastTimestamp, body |-> b]), TRUE, b) :
        b \in {EventCallback(e) : e \in {m \in ChannelMessageEvents :
                                             m.channel = "C1" /\ m.text = <<"hello">>}}
               \cup
               {EventCallback([type |-> "channel_created",
                               channel |-> [kind |-> "channel", id |-> "C1",
                                            name |-> "general", is_private |-> TRUE]])}}
    \cup
    {Request(PostSlackEvents, PastTimestamp, s, TRUE, ForgedBody) :
        s \in ForgedSignatures(PastTimestamp, ForgedBody) \ {ABSENT}}

ConcurrentNext ==
    \/ \E r \in Slots : Arrive(r, ConcurrentRequests)
    \/ \E r \in Slots : Handle(r)
    \/ \E r \in Slots : Return(r)
    \/ \E r \in Slots : Throw(r)
    \/ \E r \in Slots : Close(r)

\* the events server, its requests interleaving at every await
ConcurrentSpec == Init /\ [][ConcurrentNext]_vars

-----------------------------------------------------------------------------
(* Claims about the events server *)

\* 'v0=' + HMAC-SHA256(signing secret, 'v0:<timestamp>:<raw body>')
SlackSignature(req) ==
    [kind |-> "sig",
     mac  |-> HmacSha256Hex(SigningSecret, <<"v0", req.timestamp, req.body>>),
     len  |-> SigLen]

HeadersPresent(req) == req.timestamp # ABSENT /\ req.signature # ABSENT

\* the timestamp header is a number of seconds more than five minutes before t
InThePast(req, t) == req.timestamp.kind = "int" /\ req.timestamp.val < t - 300

\* the timestamp header is a number of seconds more than five minutes after t
InTheFuture(req, t) == req.timestamp.kind = "int" /\ req.timestamp.val > t + 300

PassedVerification(req, t) ==
    /\ HeadersPresent(req)
    /\ ~InThePast(req, t)
    /\ req.signature = SlackSignature(req)

\* the step is the run of the middleware (and endpoint) on the request of slot r
Handled(r) == reqs[r].pc = "received" /\ reqs'[r].pc # "received"

\* the step sends the response of the request of slot r
Responds(r) == reqs[r].pc \notin {"idle", "responded"} /\ reqs'[r].pc = "responded"

C2_AckedMessageIsStored ==
    [][\A r \in Slots :
            (/\ Responds(r)
             /\ reqs[r].event # ABSENT
             /\ reqs[r].event.type = "message"
             /\ reqs'[r].status = 200)
            => \E row \in messages' : row.slack_id = reqs[r].event.ts
      ]_vars

\* C4: a request with both headers and a timestamp that is not stale whose
\* signature differs from the computed one is answered 401 'Invalid
\* signature' and does not reach the endpoint, whatever the length of the
\* signature it carries
C4_WrongSignatureIs401 ==
    [][\A r \in Slots :
            (/\ Handled(r)
             /\ HeadersPresent(reqs[r].req)
             /\ ~InThePast(reqs[r].req, now)
             /\ reqs[r].req.raw
             /\ reqs[r].req.signature # SlackSignature(reqs[r].req))
            => (/\ reqs'[r].pc = "responded"
                /\ reqs'[r].status = 401
                /\ reqs'[r].text = "Invalid signature"
                /\ ~reqs'[r].passed)
      ]_vars

\* C5: a request whose timestamp is more than 300 seconds before or after
\* the current time is answered 400 and nothing is processed; a timestamp
\* within 300 seconds is not rejected as stale
C5_TimestampWithinFiveMinutes ==
    [][\A r \in Slots :
            (Handled(r) /\ HeadersPresent(reqs[r].req)) =>
                /\ (InThePast(reqs[r].req, now) \/ InTheFuture(reqs[r].req, now))
                        => (/\ reqs'[r].pc = "responded"
                            /\ reqs'[r].status = 400
                            /\ ~reqs'[r].passed)
                /\ (/\ reqs[r].req.timestamp.kind = "int"
                    /\ ~InThePast(reqs[r].req, now)
                    /\ ~InTheFuture(reqs[r].req, now))
                        => reqs'[r].text # "Ignore stale request"
      ]_vars

\* C6: every verified request to POST /slack/events is answered 200: the
\* url_verification, the event_callback whose handling succeeds or throws,
\* any other body; and a verified request that is not answered yet is at an
\* await of the handler, which ends by returning or by throwing
C6_VerifiedRequestsGet200 ==
    [][\A r \in Slots :
            /\ (/\ reqs'[r].pc = "responded" /\ reqs[r].pc # "responded"
                /\ reqs'[r].passed
                /\ Handled(r) => reqs[r].req.route = PostSlackEvents)
               => reqs'[r].status = 200
            /\ (reqs'[r].passed /\ reqs'[r].pc # "responded")
               => reqs'[r].pc \in {"channel_created:storeChannel",
                                   "message:getChannelBySlackId",
                                   "message:conversations.info",
                                   "message:storeChannel", "message:storeMessage"}
      ]_vars

\* C6 witness: a verified event_callback was answered 200 after its handling
\* threw behind a call to the Slack API
C6_Witness ==
    \E r \in Slots :
        /\ reqs[r].pc = "responded" /\ reqs[r].passed /\ reqs[r].threw
        /\ reqs[r].calls = 1 /\ reqs[r].status = 200

\* the events whose handling writes to the store
StoringEvents ==
    {e \in ChannelCreatedEvents : e.channel # ABSENT} \cup ChannelMessageEvents

\* the request Slack sends for an event
SlackRequest(event) ==
    Request(PostSlackEvents, PastTimestamp,
            mySignature([timestamp |-> PastTimestamp, body |-> EventCallback(event)]),
            TRUE, EventCallback(event))

\* the run of a handler from slot to its response, with no other request in
\* between: its first failAt awaits return, the next one throws
RECURSIVE runHandler(_, _, _, _)
runHandler(slot, db, info, failAt) ==
    IF slot.pc \notin AwaitPoints THEN [slot |-> slot, db |-> db]
    ELSE IF failAt = 0 THEN awaitThrows(slot, db)
    ELSE LET next == awaitReturns(slot, db, info)
         IN  runHandler(next.slot, next.db, info, failAt - 1)

\* the delivery of an event, processed from request to response
deliver(event, db, info, failAt) ==
    runHandler(handle(SlackRequest(event), Epoch), db, info, failAt)

\* no await of the handler throws
NoFailure == Cardinality(AwaitPoints)

\* an event is delivered and processed up to the response before the next
\* request arrives
Deliver ==
    /\ reqs[Serial].pc \in {"idle", "responded"}
    /\ seq.channels < MaxSerial /\ seq.messages < MaxSerial
    /\ \E event \in StoringEvents, failAt \in 0..NoFailure :
        \E info \in ChannelInfos(IF event.type = "message" THEN event.channel
                                  ELSE event.channel.id) :
            LET done == deliver(event, database, info, failAt)
            IN  /\ reqs' = [reqs EXCEPT ![Serial] = done.slot]
                /\ channels' = done.db.channels
                /\ messages' = done.db.messages
                /\ seq' = done.db.seq
    /\ UNCHANGED <<now, toolVars>>

DeliveryNext == Deliver

\* the events server, each delivery processed before the next one arrives
DeliverySpec == Init /\ [][DeliveryNext]_vars

-----------------------------------------------------------------------------
(* Action items *)

ToolFinished(tool) == toolCall.tool = tool /\ toolCall.pc = "done"

ItemIds(table) == {row.id : row \in table}

RECURSIVE runTool(_, _, _, _)
runTool(call, db, inputs, failAt) ==
    IF call.pc = "done" THEN [call |-> call, db |-> db]
    ELSE LET value == IF call.pc = "conversations.info" THEN inputs.info
                      ELSE IF call.pc \in {"getChannelHistory", "getThreadReplies"}
                      THEN inputs.history
                      ELSE IF call.pc = "getChannels" THEN inputs.channels
                      ELSE NULL
             resp  == [thrown |-> IF failAt.at = 1 THEN failAt.thrown ELSE "no",
                       value  |-> value]
             next  == settle(call, db, resp)
         IN  runTool(next.call, next.db, inputs,
                     [failAt EXCEPT !.at = IF @ = 0 THEN 0 ELSE @ - 1])

\* the awaits of an update by track_follow_up_status
TrackAwaits == 4

TrackFailures ==
    {[at |-> 0, thrown |-> "no"]} \cup
    {[at |-> k, thrown |-> "query"] : k \in 1..TrackAwaits}

NoInputs == [info |-> NULL, history |-> NULL, channels |-> NULL]

\* C9: in every state of the store, a track_follow_up_status call with the id
\* of an existing action item and a valid new_status that succeeds leaves the
\* action_items table with that row's status set to new_status and every other
\* field and row as it was, leaves channels, messages, meeting notes and the
\* sequences as they were, and has posted one message, to the channel of the row
C9_TrackUpdatesExactlyOneItem ==
    \A item \in action_items : \A new_status \in Statuses : \A failAt \in TrackFailures :
        LET args == [action_item_id |-> item.id, new_status |-> new_status]
            done == runTool(begin("track_follow_up_status", args, now), store,
                            NoInputs, failAt)
        IN  done.call.ok =>
                /\ done.db.action_items =
                      (action_items \ {item}) \cup {[item EXCEPT !.status = new_status]}
                /\ done.db.channels = channels
                /\ done.db.messages = messages
                /\ done.db.meeting_notes = meeting_notes
                /\ done.db.seq = seq
                /\ Len(done.call.posts) = 1
                /\ \E c \in channels :
                      c.id = item.channel_id /\ done.call.posts[1] = c.slack_id

\* C9 witness: track_follow_up_status has set the status of an action item and
\* posted the update
C9_Witness ==
    /\ ToolFinished("track_follow_up_status") /\ toolCall.ok
    /\ Has(toolCall.result, "updated")
    /\ Len(toolCall.posts) = 1
    /\ \E row \in action_items :
          /\ row.id = toolCall.args.action_item_id
          /\ row.status = toolCall.args.new_status
          /\ row.status # "open"

\* C10: a track_follow_up_status call that gives an action_item_id and a
\* new_status other than open, completed and blocked has failed, when the
\* handler yields for the first time, with 'Failed to track_follow_up_status:
\* Invalid status. Must be one of: open, completed, blocked', without a pool
\* connection, a post or a change of the tables
C10_InvalidStatusIsRejected ==
    [][(/\ toolCall'.tool = "track_follow_up_status"
        /\ Has(toolCall'.args, "action_item_id")
        /\ Has(toolCall'.args, "new_status")
        /\ toolCall'.args.new_status \notin Statuses)
       => /\ toolCall'.pc = "done"
          /\ ~toolCall'.ok
          /\ toolCall'.error = toolWrapper("track_follow_up_status", InvalidStatus)
          /\ toolCall'.connects = 0
          /\ toolCall'.posts = <<>>
          /\ tables' = tables]_vars

-----------------------------------------------------------------------------
(* The MCP tools and the events server over one database *)

\* calls of the tools that store channels and messages, for one channel
StoreCalls ==
    {c \in FollowUpCalls \cup ChannelCalls :
        /\ c.tool \in {"create_follow_up", "get_channel_history", "get_channel_info",
                       "list_channels"}
        /\ Has(c.args, "channel_id") => c.args.channel_id = "C1"
        /\ ~Has(c.args, "assignee")}

\* the events Slack sends about that channel: its creation and a message in it
StoreEvents ==
    {e \in StoringEvents :
        \/ e.type = "channel_created" /\ e.channel.id = "C1" /\ ~e.channel.is_private
        \/ e.type = "message" /\ e.channel = "C1" /\ e.ts = 1 /\ e.text = <<"hello">>}

Next ==
    \/ Invoke(StoreCalls)
    \/ ToolReturn
    \/ ToolThrow
    \/ Arrive(Serial, {SlackRequest(event) : event \in StoreEvents})
    \/ Handle(Serial)
    \/ Return(Serial)
    \/ Throw(Serial)
    \/ Close(Serial)

Spec == Init /\ [][Next]_vars

SameSlackId(table) ==
    \E row, other \in table : row # other /\ row.slack_id = other.slack_id

\* C8: after every step of the tools and the events server, no two channel
\* rows and no two message rows have the same slack_id, every channel row
\* there was before the step still has its id and slack_id, and an internal
\* channel id a handler holds from storeChannel (or from the lookup) is the id
\* of the row of the channel the handler works on
C8_ExternalIdsAreUnique ==
    [][/\ ~SameSlackId(channels') /\ ~SameSlackId(messages')
       /\ \A row \in channels :
            \E kept \in channels' : kept.id = row.id /\ kept.slack_id = row.slack_id
       /\ Has(toolCall'.local, "channelResult") /\ Has(toolCall'.args, "channel_id") =>
            \E row \in channels' : /\ row.id = toolCall'.local.channelResult.id
                                   /\ row.slack_id = toolCall'.args.channel_id
       /\ reqs'[Serial].channelRecord # NULL =>
            \E row \in channels' : /\ row.id = reqs'[Serial].channelRecord.id
                                   /\ row.slack_id = reqs'[Serial].event.channel]_vars

\* C8 witness: a tool and the events server have both stored the same channel
\* (two values of the channels sequence were drawn for one row), after a
\* message that refers to the row was stored
C8_Witness ==
    /\ Cardinality(channels) = 1 /\ seq.channels >= 2
    /\ \E m \in messages : \E c \in channels : m.channel_id = c.id
    /\ toolCall.nth >= 1 /\ toolCall.ok /\ toolCall.connects >= 1
    /\ reqs[Serial].pc = "responded" /\ reqs[Serial].writes >= 1

-----------------------------------------------------------------------------
(* Follow-up tools: failures and reminders *)

\* every await of the call returns
NoThrow == [at |-> 0, thrown |-> "no"]

\* the ids a caller can give for an action item
ActionItemIds == 0..(MaxSerial + 1)

\* C11: in every state of the store, a track_follow_up_status call with a
\* valid new_status and an action_item_id that no action item has, all of whose
\* awaits return, fails with 'Failed to track_follow_up_status: Action item
\* with ID <id> not found', has posted nothing, leaves tables and sequences as
\* they were, and has released the one connection it acquired
C11_UnknownItemIsNotFound ==
    \A id \in ActionItemIds \ ItemIds(action_items) : \A new_status \in Statuses :
        LET args == [action_item_id |-> id, new_status |-> new_status]
            done == runTool(begin("track_follow_up_status", args, now), store,
                            NoInputs, NoThrow)
        IN  /\ ~done.call.ok
            /\ done.call.error = toolWrapper("track_follow_up_status", NotFound(id))
            /\ done.call.posts = <<>>
            /\ done.db = store
            /\ done.call.connects = 1 /\ done.call.releases = 1

\* the calls that create action items, close them and remind of them
RemindCalls ==
    {c \in FollowUpCalls :
        /\ c.tool = "create_follow_up" => ~Has(c.args, "assignee")
        /\ c.tool = "track_follow_up_status" =>
              /\ Has(c.args, "action_item_id") /\ c.args.action_item_id \in 1..2
              /\ Has(c.args, "new_status") /\ c.args.new_status \in {"completed", "open"}}

RemindNext ==
    \/ InvokeWithin(RemindCalls, MaxFollowUps)
    \/ ToolReturn
    \/ ToolThrow

\* action items are created, closed and reminded of, one call at a time
RemindSpec == Init /\ [][RemindNext]_vars

\* the awaits of remind_action_items: pool.connect, the query, a post per item
RemindFailures ==
    {NoThrow} \cup {[at |-> k, thrown |-> "query"] : k \in 1..(MaxSerial + 2)}

OpenItems == {row \in action_items : row.status = "open"}

\* the open action items of the channel with a slack_id
OpenIn(slack_id) ==
    {row \in OpenItems :
        \E c \in channels : c.id = row.channel_id /\ c.slack_id = slack_id}

\* the number of messages among posts that went to a channel
PostsTo(posts, slack_id) == Cardinality({i \in DOMAIN posts : posts[i] = slack_id})

\* C12: in every state of the store, a remind_action_items call without
\* filters changes no table and no sequence and posts at most one reminder
\* per open action item, to the channel of the item, whichever await throws
\* (so none for an item that is completed or blocked); when it succeeds it has
\* posted one reminder per open item and reports reminders_sent equal to the
\* number of messages posted; and it succeeds when no await throws
C12_RemindersOnlyForOpenItems ==
    \A args \in {<<>>, [days_overdue |-> 0]} : \A failAt \in RemindFailures :
        LET done == runTool(begin("remind_action_items", args, now), store,
                            NoInputs, failAt)
        IN  /\ done.db = store
            /\ \A i \in DOMAIN done.call.posts : done.call.posts[i] \in ChannelIds
            /\ \A c \in ChannelIds :
                  PostsTo(done.call.posts, c) <= Cardinality(OpenIn(c))
            /\ done.call.ok =>
                  /\ \A c \in ChannelIds :
                        PostsTo(done.call.posts, c) = Cardinality(OpenIn(c))
                  /\ done.call.result.reminders_sent = Len(done.call.posts)
            /\ failAt = NoThrow => done.call.ok

\* C12 witness: remind_action_items, called without filters while one action
\* item was open and another one completed, has posted one reminder
C12_Witness ==
    /\ ToolFinished("remind_action_items") /\ toolCall.ok
    /\ ~TruthyString(toolCall.args, "channel_id")
    /\ Cardinality(OpenItems) = 1
    /\ \E row \in action_items : row.status = "completed"
    /\ Len(toolCall.posts) = 1 /\ toolCall.result.reminders_sent = 1

\* C13: in every state of the store, a remind_action_items call with a
\* channel_id, all of whose awaits return, succeeds, has posted one reminder
\* per open action item of that channel and none to another channel, reports
\* that number as reminders_sent, and changes no table
C13_RemindersOfOneChannel ==
    \A c \in ChannelIds :
        LET done == runTool(begin("remind_action_items", [channel_id |-> c], now),
                            store, NoInputs, NoThrow)
        IN  /\ done.call.ok
            /\ \A i \in DOMAIN done.call.posts : done.call.posts[i] = c
            /\ Len(done.call.posts) = Cardinality(OpenIn(c))
            /\ done.call.result.reminders_sent = Cardinality(OpenIn(c))
            /\ done.db = store

-----------------------------------------------------------------------------
(* Meeting notes and extracted action items *)

\* the awaits of a notes tool from getChannelHistory on
NoteAwaits == 7

NoteFailures ==
    {NoThrow} \cup {[at |-> k, thrown |-> "query"] : k \in 1..NoteAwaits}

\* the call of a notes tool awaits the history of the channel
AwaitsHistory == toolCall.tool \in NoteTools /\ toolCall.pc = "getChannelHistory"

\* the run of the call from here when Slack answers with history
withHistory(history, failAt) ==
    runTool(toolCall, store, [info |-> NULL, history |-> history, channels |-> NULL],
            failAt)

\* the messages of a history whose ts, 0 for a message without ts, is between
\* start_ts and end_ts, both included
InRange(history, start_ts, end_ts) ==
    LET ts(m) == IF "ts" \in DOMAIN m THEN m.ts ELSE 0
        within(m) == start_ts <= ts(m) /\ ts(m) <= end_ts
    IN  SelectSeq(history, within)

\* C14: when a call of create_meeting_notes or extract_action_items awaits the
\* history of the channel, then for every history Slack can answer with: if no
\* message of it has start_ts <= ts <= end_ts (ts = 0 without ts) the call
\* fails, with 'No messages found in the specified time range' unless the
\* fetch itself threw, leaves tables and sequences as they were and posts
\* nothing; otherwise it does not fail with that message, and a call that
\* succeeds returns the analysis of exactly the messages in the range
C14_OnlyMessagesInRange ==
    AwaitsHistory =>
        \A history \in NoteHistories : \A failAt \in NoteFailures :
            LET inRange == InRange(history, toolCall.args.start_ts, toolCall.args.end_ts)
                done    == withHistory(history, failAt)
                result  == done.call.result
            IN  /\ inRange = <<>> =>
                      /\ ~done.call.ok
                      /\ failAt.at # 1 =>
                            done.call.error = toolWrapper(toolCall.tool, NoMessages)
                      /\ done.db = store
                      /\ done.call.posts = <<>>
                /\ inRange # <<>> =>
                      done.call.error # toolWrapper(toolCall.tool, NoMessages)
                /\ (done.call.ok /\ toolCall.tool = "create_meeting_notes") =>
                      /\ result.action_items = meetingActionItems(inRange)
                      /\ result.decisions = meetingDecisions(inRange)
                      /\ Len(result.participants) = Len(participantIds(inRange))
                /\ (done.call.ok /\ toolCall.tool = "extract_action_items") =>
                      result.action_items = extractedActionItems(inRange)

\* C14 witness: a notes tool has failed because no fetched message was in the
\* range, although Slack answered with messages
C14_Witness ==
    /\ toolCall.pc = "done" /\ toolCall.tool \in NoteTools /\ ~toolCall.ok
    /\ toolCall.error = toolWrapper(toolCall.tool, NoMessages)
    /\ toolCall.args.start_ts = 2
    /\ channels = {} /\ toolCall.posts = <<>>

\* the rows of a table that a run added to it
Added(before, after) == {row \in after : row.id \notin ItemIds(before)}

\* C15: when a create_meeting_notes call awaits the history of the channel,
\* then for every history and every await that may throw, a call that
\* succeeds has added one meeting_notes row, of the channel of the call, and
\* one action_items row per action item of the list it returns, in that
\* order, each open, of that channel, with the description and assignee of the
\* item; the list stored in the notes row is the list returned; no row that
\* was there has changed
C15_NotesAndTheirActionItems ==
    (AwaitsHistory /\ toolCall.tool = "create_meeting_notes") =>
        \A history \in NoteHistories : \A failAt \in NoteFailures :
            LET done  == withHistory(history, failAt)
                list  == done.call.result.action_items
                notes == Added(meeting_notes, done.db.meeting_notes)
                items == RowsById(Added(action_items, done.db.action_items))
            IN  done.call.ok =>
                  /\ meeting_notes \subseteq done.db.meeting_notes
                  /\ action_items \subseteq done.db.action_items
                  /\ Cardinality(notes) = 1
                  /\ \A n \in notes :
                        /\ n.action_items = list
                        /\ \E c \in done.db.channels :
                              c.id = n.channel_id /\ c.slack_id = toolCall.args.channel_id
                        /\ \A i \in DOMAIN items : items[i].channel_id = n.channel_id
                  /\ Len(items) = Len(list)
                  /\ \A i \in DOMAIN items :
                        /\ items[i].status = "open"
                        /\ items[i].description = list[i].description
                        /\ items[i].assignee = list[i].assignee

\* C15 witness: create_meeting_notes has succeeded a second time for a
\* conversation with an action item; two notes rows and two action items exist
C15_Witness ==
    /\ ToolFinished("create_meeting_notes") /\ toolCall.ok /\ toolCall.nth = 2
    /\ Len(toolCall.result.action_items) = 1
    /\ Cardinality(meeting_notes) = 2 /\ Cardinality(action_items) = 2
    /\ \A n \in meeting_notes : Len(n.action_items) = 1

\* C16: when a create_meeting_notes call awaits the history of the channel,
\* then for every history and every await that may throw: the call posts at
\* most one message, to the channel of the call, and none when post_to_channel
\* is false; a call that succeeds has posted one message when post_to_channel
\* is true or omitted, and its result says posted exactly when it has posted
C16_PostsOnceUnlessToldNotTo ==
    (AwaitsHistory /\ toolCall.tool = "create_meeting_notes") =>
        \A history \in NoteHistories : \A failAt \in NoteFailures :
            LET done   == withHistory(history, failAt)
                posts  == done.call.posts
                wanted == \/ "post_to_channel" \notin DOMAIN toolCall.args
                          \/ toolCall.args.post_to_channel
            IN  /\ Len(posts) <= 1
                /\ \A i \in DOMAIN posts : posts[i] = toolCall.args.channel_id
                /\ ~wanted => posts = <<>>
                /\ done.call.ok =>
                      /\ wanted => Len(posts) = 1
                      /\ done.call.result.posted <=> Len(posts) = 1

\* C16 witness: create_meeting_notes, called without post_to_channel, has
\* succeeded and posted the notes
C16_Witness ==
    /\ ToolFinished("create_meeting_notes") /\ toolCall.ok
    /\ ~Has(toolCall.args, "post_to_channel")
    /\ toolCall.posts = <<toolCall.args.channel_id>>
    /\ toolCall.result.posted
    /\ meeting_notes # {}

\* the messages of a history, in the range of the call, that are action items
Detected(history) ==
    LET detected(m) == isActionItem(m.text)
    IN  SelectSeq(InRange(history, toolCall.args.start_ts, toolCall.args.end_ts),
                  detected)

\* the user a message assigns its action item to: the user of the first
\* mention in its text, the author if the text mentions nobody
Assignee(msg) ==
    LET mentions(i) == i \in DOMAIN msg.text /\ msg.text[i] \in Mentions
    IN  IF \E i \in DOMAIN msg.text : mentions(i)
        THEN CHOOSE user \in UserIds :
                \E i \in DOMAIN msg.text :
                    /\ msg.text[i] = Mention(user)
                    /\ \A j \in 1..(i - 1) : ~mentions(j)
        ELSE msg.user

\* C17: when an extract_action_items call awaits the history of the channel,
\* then for every history and every await that may throw, a call that
\* succeeds returns one action item per detected message, in their order,
\* whose assignee is the user of the first mention in the text of the message,
\* or the author of the message if the text has no mention, and the
\* action_items row stored for the item has the same assignee
C17_AssigneeIsFirstMention ==
    (AwaitsHistory /\ toolCall.tool = "extract_action_items") =>
        \A history \in NoteHistories : \A failAt \in NoteFailures :
            LET done == withHistory(history, failAt)
                list == done.call.result.action_items
                rows == RowsById(Added(action_items, done.db.action_items))
                msgs == Detected(history)
            IN  done.call.ok =>
                  /\ Len(list) = Len(msgs) /\ Len(rows) = Len(msgs)
                  /\ \A i \in DOMAIN msgs :
                        /\ list[i].description = msgs[i].text
                        /\ list[i].assignee = Assignee(msgs[i])
                        /\ rows[i].description = msgs[i].text
                        /\ rows[i].assignee = list[i].assignee

\* C17 witness: extract_action_items has stored the action item of a message
\* of U1 that mentions U2 and then U1, assigned to U2
C17_Witness ==
    /\ ToolFinished("extract_action_items") /\ toolCall.ok
    /\ \E row \in action_items :
          /\ row.description = WillDeploy.text
          /\ row.assignee = "U2"
    /\ \E i \in DOMAIN toolCall.result.action_items :
          toolCall.result.action_items[i].assignee = "U2"

-----------------------------------------------------------------------------
(* The wrapper of the tools *)

\* the message of the error an await rejects with
Rejection(pc, thrown) ==
    IF pc \in SlackCalls THEN "slack_error"
    ELSE IF thrown = "connect" THEN "pool_error" ELSE "query_error"

-----------------------------------------------------------------------------
(* Startup *)

\* every required variable is set and not empty
ConfigValid(env) ==
    \A i \in DOMAIN Required : Required[i] \in DOMAIN env /\ env[Required[i]] # ""

\* the steps of a start, in their order
StartupOrder(entry) ==
    <<"validateConfig", "initializeDatabase", "startMcpServer">>
    \o (IF entry = "mcp+events" THEN <<"startSlackEventsServer">> ELSE <<>>)

\* no server has been started
NoServer(b) == b.mcp = "no" /\ b.events = "no"

\* the process has exited with code 1
Exited1(b) == b.pc = "exited" /\ Has(b, "code") /\ b.code = 1

\* C19: after every step of a start, the steps done so far are the first
\* steps of: validate the configuration, initialize the database, start the
\* MCP server (and the events server); the database is connected to only
\* after the validation returned, and a server is started only after the
\* database initialization returned and released its client.  With
\* SLACK_BOT_TOKEN, SLACK_SIGNING_SECRET or DB_PASSWORD missing the validation
\* step ends the process with code 1, without a connection to the database;
\* when the database initialization fails the step ends the process with code
\* 1; in both cases no server has been started, and a process that has exited
\* does nothing more
C19_StartupIsOrdered ==
    [][/\ \E n \in 0..Len(StartupOrder(boot'.entry)) :
            boot'.log = SubSeq(StartupOrder(boot'.entry), 1, n)
       /\ (boot'.connects > 0 \/ boot'.pc \in {"pool.connect", "CREATE TABLE"}) =>
            Len(boot'.log) >= 1 /\ ConfigValid(boot'.env)
       /\ ~NoServer(boot') =>
            /\ Len(boot'.log) >= 3
            /\ boot'.connects = 1 /\ boot'.releases = 1
       /\ (boot.pc = "validateConfig" /\ ~ConfigValid(boot.env)) =>
            /\ Exited1(boot') /\ NoServer(boot') /\ boot'.connects = 0
       /\ (boot.pc \in {"pool.connect", "CREATE TABLE"} /\ boot'.pc = "exited") =>
            /\ Exited1(boot') /\ NoServer(boot')
            /\ boot'.connects = boot'.releases
       /\ boot'.pc = "exited" => Exited1(boot')
       /\ boot.pc = "exited" => boot' = boot]_vars

\* C19 witness: the start with the events server has exited with code 1
\* because the creation of the tables failed, after the validation, with the
\* client released and no server started
C19_Witness ==
    /\ Exited1(boot) /\ boot.error = QueryError
    /\ boot.entry = "mcp+events"
    /\ boot.log = <<"validateConfig">>
    /\ boot.connects = 1 /\ boot.releases = 1
    /\ NoServer(boot)

-----------------------------------------------------------------------------
(* Referential integrity *)

\* calls of the tools that store rows that refer to a channel, for one channel
ReferringCalls ==
    {c \in FollowUpCalls \cup ChannelCalls \cup NoteCalls :
        /\ c.tool \in {"create_follow_up", "get_channel_history", "get_thread_replies",
                       "create_meeting_notes", "extract_action_items"}
        /\ c.args.channel_id = "C1"
        /\ ~Has(c.args, "assignee")
        /\ c.tool = "create_meeting_notes" =>
              c.args.start_ts = 1 /\ ~Has(c.args, "post_to_channel")
        /\ c.tool = "extract_action_items" => DOMAIN c.args = {"channel_id"}}

\* the message events of that channel
ReferringEvents == {e \in StoreEvents : e.type = "message"}

ReferringNext ==
    \/ Invoke(ReferringCalls)
    \/ ToolReturn
    \/ ToolThrow
    \/ Arrive(Serial, {SlackRequest(event) : event \in ReferringEvents})
    \/ Handle(Serial)
    \/ Return(Serial)
    \/ Throw(Serial)
    \/ Close(Serial)

\* the tools that store rows that refer to a channel, and the events server
ReferringSpec == Init /\ [][ReferringNext]_vars

\* every row of the table refers to a channel row
RefersToChannel(table) ==
    \A row \in table :
        /\ "channel_id" \in DOMAIN row
        /\ \E c \in channels : c.id = row.channel_id

\* C20: in every state the tools and the events server reach, at every
\* interleaving of their awaits, every message row, every meeting_notes row
\* and every action_items row has the id of a channel row as its channel_id
C20_RowsReferToChannels ==
    /\ RefersToChannel(messages)
    /\ RefersToChannel(meeting_notes)
    /\ RefersToChannel(action_items)

\* C20 witness: messages, meeting notes and action items are stored, a
\* message by the events server while a tool call was in progress, and a
\* second notes row refers to the channel
C20_Witness ==
    /\ messages # {} /\ action_items # {}
    /\ Cardinality(meeting_notes) = 2
    /\ Cardinality(channels) = 1
    /\ reqs[Serial].pc = "responded" /\ reqs[Serial].writes >= 1
    /\ toolCall.nth = 2 /\ toolCall.pc # "done"

-----------------------------------------------------------------------------
(* The clients of the pool *)

\* the clients the call in progress has acquired and not released
Held == toolCall.connects - toolCall.releases

\* the awaits of a handler that holds a client: queries of that client and
\* Slack posts, none of which asks the pool for a client
HoldingAwaits == {"UPDATE", "SELECT", "query", "postMessage"}

-----------------------------------------------------------------------------
(* Concurrent message events *)

\* the handler of slot r stores its message in this step
StoresMessage(r) ==
    /\ reqs[r].pc = "message:storeMessage"
    /\ reqs'[r].pc = "responded" /\ ~reqs'[r].threw

-----------------------------------------------------------------------------
(* Messages of different channels *)

\* the rows of the table that belong to the channel with that Slack id
RowsOfChannel(table, chans, slack_id) ==
    {row \in table : \E c \in RowsBySlackId(chans, slack_id) : row.channel_id = c.id}

\* C23: when the events server stores a message of a channel, every message
\* row of another channel keeps all its fields, and afterwards a row with
\* the timestamp of the message belongs to the channel of the message, for
\* every pair of messages, two with the same timestamp included
C23_ChannelsKeepTheirMessages ==
    [][\A r \in Slots : StoresMessage(r) =>
            LET event == reqs[r].event
            IN  /\ \A m \in messages \ RowsOfChannel(messages, channels, event.channel) :
                       m \in messages'
                /\ \E m \in RowsOfChannel(messages', channels', event.channel) :
                       m.slack_id = event.ts]_vars

-----------------------------------------------------------------------------
(* Channel metadata *)

\* the row holds the name Slack gave for the channel
NamedBySlack(row) == row.name \in ChannelNames

\* C24: a step of get_channel_history or get_thread_replies leaves the name
\* and the privacy flag of a row of its channel unchanged when the row holds
\* the name obtained from Slack
C24_HistoryKeepsChannelMetadata ==
    [][toolCall.tool \in {"get_channel_history", "get_thread_replies"} =>
            \A c \in RowsBySlackId(channels, toolCall.args.channel_id) :
                NamedBySlack(c) =>
                    \E d \in channels' :
                        /\ d.id = c.id
                        /\ d.name = c.name
                        /\ d.is_private = c.is_private]_vars

-----------------------------------------------------------------------------
(* Failures of the tools and the store *)

\* the calls of track_follow_up_status
TrackCalls == {c \in FollowUpCalls : c.tool = "track_follow_up_status"}

\* C25: in every state of the store, a track_follow_up_status call that
\* fails, at whichever await, leaves the action_items table as it was
C25_FailedTrackChangesNothing ==
    \A c \in TrackCalls : \A failAt \in TrackFailures :
        LET done == runTool(begin(c.tool, c.args, now), store, NoInputs, failAt)
        IN  ~done.call.ok => done.db.action_items = action_items

\* C26: when a create_meeting_notes call awaits the history of the channel,
\* then for every history and every await that may throw, whether the call
\* succeeds or fails, every meeting_notes row it has added comes with as many
\* added action_items rows as the row lists action items
C26_NotesNeverWithoutTheirItems ==
    (AwaitsHistory /\ toolCall.tool = "create_meeting_notes") =>
        \A history \in NoteHistories : \A failAt \in NoteFailures :
            LET done  == withHistory(history, failAt)
                notes == Added(meeting_notes, done.db.meeting_notes)
                items == Added(action_items, done.db.action_items)
            IN  \A n \in notes : Cardinality(items) = Len(n.action_items)

\* C27: when an extract_action_items call awaits the history of the channel,
\* then for every history, the call run to its end and then run once more
\* with the same arguments and the same history leaves the action_items
\* table with the rows it had after the first run
C27_ExtractIsIdempotent ==
    (AwaitsHistory /\ toolCall.tool = "extract_action_items") =>
        \A history \in NoteHistories :
            LET inputs == [info |-> NULL, history |-> history, channels |-> NULL]
                once   == withHistory(history, NoThrow)
                again  == runTool(toolCall, once.db, inputs, NoThrow)
            IN  once.call.ok => again.db.action_items = once.db.action_items

-----------------------------------------------------------------------------
(* The modes of track_follow_up_status *)

\* the call gives both action_item_id and new_status
ProvidesBoth(args) == Has(args, "action_item_id") /\ Has(args, "new_status")

\* the action items with the status of the filter, all of them without filter
WithStatus(args) ==
    {row \in action_items : Has(args, "status") => row.status = args.status}

\* C28: in every state of the store, a track_follow_up_status call that gives
\* both action_item_id and new_status, whatever the id, does not read the
\* list of action items: it rejects the status or asks the pool for a client
\* to update; every other call changes no table, posts nothing and returns
\* the action items that have the status of the filter, or all of them
C28_ModesOfTrackFollowUpStatus ==
    \A c \in TrackCalls :
        LET started == begin(c.tool, c.args, now)
            done    == runTool(started, store, NoInputs, NoThrow)
        IN  IF ProvidesBoth(c.args)
            THEN started.pc # "getActionItems"
            ELSE /\ started.pc = "getActionItems"
                 /\ done.call.ok
                 /\ done.db = store
                 /\ done.call.posts = <<>>
                 /\ {row.id : row \in done.call.result.rows} =
                        {row.id : row \in WithStatus(c.args)}

-----------------------------------------------------------------------------
(* The events that change the store *)

\* channel_created events and message events with channel_type 'channel'
Storing(event) ==
    /\ event # ABSENT
    /\ \/ event.type = "channel_created"
       \/ event.type = "message" /\ event.channel_type = "channel"

\* the body is an event_callback with such an event
StoringBody(body) == body.type = "event_callback" /\ Storing(body.event)

\* the rows of the table with another Slack id are the same in both tables
OthersKept(before, after, slack_id) ==
    \A row \in before : row.slack_id # slack_id => row \in after

\* the handler of slot r has passed the verification in this step
Admitted(r) == reqs[r].pc = "received" /\ reqs'[r].passed

\* C29: the events server changes a table or calls the Slack API only in the
\* handler of a verified channel_created event, which upserts the row of the
\* channel, or of a verified message event with channel_type 'channel', which
\* fetches and stores the channel when it is unknown and upserts the row of
\* the message.  A verified url_verification request to /slack/events is
\* answered 200 with its challenge; a verified request with any other body
\* is answered at once, without an await.  Meeting notes and action items never change
C29_OnlyTwoEventsChangeTheStore ==
    [][/\ \A r \in Slots :
            /\ (/\ Admitted(r) /\ reqs[r].req.route = PostSlackEvents
                /\ reqs[r].req.body.type = "url_verification") =>
                  /\ reqs'[r].pc = "responded"
                  /\ reqs'[r].status = 200
                  /\ reqs'[r].text = reqs[r].req.body.challenge
            /\ (Admitted(r) /\ ~StoringBody(reqs[r].req.body)) =>
                  /\ reqs'[r].pc = "responded"
                  /\ reqs'[r].calls = 0 /\ reqs'[r].writes = 0
       /\ meeting_notes' = meeting_notes /\ action_items' = action_items
       /\ (\/ <<channels, messages, seq>>' # <<channels, messages, seq>>
           \/ \E r \in Slots : reqs'[r].calls > reqs[r].calls) =>
              \E r \in Slots :
                  LET slot == reqs[r]
                  IN  /\ slot.passed /\ Storing(slot.event)
                      /\ slot.pc = "channel_created:storeChannel" =>
                            /\ slot.event.type = "channel_created"
                            /\ messages' = messages
                            /\ OthersKept(channels, channels', slot.event.channel.id)
                            /\ Cardinality(RowsBySlackId(channels',
                                                         slot.event.channel.id)) = 1
                      /\ slot.pc = "message:conversations.info" =>
                            /\ slot.event.type = "message"
                            /\ RowsBySlackId(channels, slot.event.channel) = {}
                            /\ channels' = channels /\ messages' = messages
                      /\ slot.pc = "message:storeChannel" =>
                            /\ slot.event.type = "message"
                            /\ RowsBySlackId(channels, slot.event.channel) = {}
                            /\ messages' = messages
                            /\ OthersKept(channels, channels', slot.event.channel)
                            /\ Cardinality(RowsBySlackId(channels',
                                                         slot.event.channel)) = 1
                      /\ slot.pc = "message:storeMessage" =>
                            /\ slot.event.type = "message"
                            /\ channels' = channels
                            /\ OthersKept(messages, messages', slot.event.ts)
                            /\ Cardinality(RowsBySlackId(messages', slot.event.ts)) = 1
                      /\ slot.pc \in {"channel_created:storeChannel",
                                      "message:conversations.info",
                                      "message:storeChannel",
                                      "message:storeMessage"}]_vars

\* C29 witness: with a channel and a message stored by earlier events, a
\* verified url_verification request has been answered with its challenge,
\* without a write or a call of the Slack API
C29_Witness ==
    /\ channels # {} /\ messages # {}
    /\ reqs[Serial].pc = "responded" /\ reqs[Serial].passed
    /\ reqs[Serial].status = 200
    /\ reqs[Serial].text = UrlVerification.challenge
    /\ reqs[Serial].writes = 0 /\ reqs[Serial].calls = 0

====
